---- MODULE Spec2Model ----
(***************************************************************************)
(* A model of garden-rs: the in-memory BlockChain with its fork            *)
(* reconciliation (src/src/block_chain.rs) and the file-system chain store *)
(* (src/src/chain_store.rs).                                               *)
(*                                                                         *)
(* Indices are the 0-based indices of the Rust code; Get(s, i) reads the   *)
(* element the code calls s[i].  A SHA-256 digest is modelled as the tuple *)
(* of the fields that were fed to the hasher: an injective, collision-free *)
(* stand-in, with ROOT (32 zero bytes) the empty tuple.                    *)
(***************************************************************************)
EXTENDS Integers, Sequences, FiniteSets, TLC

\* ------------------------------------------------------------------ bounds

\* Longest chain (local or peer) the model builds.
MaxBlocks == 3

\* Largest nonce the proof-of-work search tries (the code searches 0..u64::MAX).
MaxNonce == 3

\* Utc::now().timestamp(): every block is built within the same second.
Clock == {0}

\* The payloads (BlockData) that are added.
DataValues == {1, 2}

\* The proof-of-work sizes a chain is constructed with.
PowSizes == {0, 1}

\* What Instant::elapsed() reports for a locally built block, and what a block
\* received from a peer may carry.
LocalElapsed == {0}
WireElapsed == {0, 1}

VARIABLES
    proof_of_work_size, \* BlockChain.proof_of_work_size
    blocks,             \* BlockChain.blocks of the local (trusted) chain
    foreign,            \* the blocks of a peer's chain, as received
    pc,                 \* the caller: "idle", "returned" (from reconcile),
                        \* "returned_again" (from a repeated reconcile), "aborted"
    arg,                \* the foreign slice the last reconcile was called with
    before,             \* the local blocks when the last reconcile was called
    result,             \* what the last reconcile returned
    first_result,       \* what the reconcile before a repeated reconcile returned
    chain,              \* FsChainStore.chain.blocks of the store that writes
    unpersisted_block_count, \* FsChainStore.unpersisted_block_count
    prefix_dirs,        \* the directories chains/<hh> on disk
    chunk_files,        \* the files chains/<hh>/<rest62> on disk, by the hash named
    head_file,          \* the file heads/<head_ref> on disk
    persisted,          \* what persist returned, when it was the last call
    faulted,            \* some persist so far returned an error
    marks,              \* the chain lengths at which a persist with new blocks returned Ok
    persisted_chain,    \* the chain when persist last returned Ok
    persist_before,     \* what persisted was when chain_store.persist() was
                        \* last called
    new_chain_store,    \* a second FsChainStore opened on the same directory
    name,               \* the name HeadRef::try_from is given
    head_ref,           \* what HeadRef::try_from returned for name
    state,              \* Store.state of the Store that owns the chain store
    dispatched,         \* the last dispatch: its action, and the state and chain before it
    store2,             \* a second Store opened on the same directory
    codec,              \* a Hash or a string, and what the hex codec made of it
    heap,               \* the address the next Rc::new or Rc::from allocates at
    rc_state,           \* a State, the Rc of its my_garden with its address
    reduced,            \* the last State::reduce: its action, the State before it,
                        \* and the plot of the first CreatePlot reduced so far
    since_call,         \* what was reduced since get_drawable_garden was last called
    test_states,        \* the Rc<TestState> values that the test holds
    selector_cache,     \* the thread-local ARGS_CACHE and RETURNS_CACHE of each selector
    selector_calls,     \* the last two calls of each selector
    dir_calls,          \* how many times a store was opened on the directory, or
                        \* a block added by one, so far
    loaded,             \* the last load of the open store: what it found, returned and placed
    head_before,        \* the chain the head file named when persist was last called
    tampered,           \* someone else removed or changed a chunk file
    now,                \* what Utc::now().timestamp() returns on the local machine
                        \* and on the peer's
    chains_dir,         \* the entries of chains/ by their names
    chain_hashes,       \* FsChainStore.chain_hashes
    refreshed           \* what try_new returned after refresh_chains

chain_vars == <<blocks, foreign, pc, arg, before, result, first_result>>

store_vars == <<chain, unpersisted_block_count, prefix_dirs, chunk_files,
                head_file, persisted, faulted, marks, persisted_chain, persist_before,
                new_chain_store>>

head_ref_vars == <<name, head_ref>>

\* What the calls on a BlockChain, and the calls on a chain store, leave alone.
app_vars == <<state, dispatched, store2>>

codec_vars == <<codec>>

view_vars == <<heap, rc_state, reduced, since_call, test_states, selector_cache,
               selector_calls>>

\* The arguments and results of the functions that are called on their own.
\* The life of a directory that one chain store after the other is opened on.
dir_vars == <<dir_calls, loaded, head_before, tampered>>

clock_vars == <<now>>

\* The scan of chains/ by refresh_chains.
scan_vars == <<chains_dir, chain_hashes, refreshed>>

pure_vars == <<head_ref_vars, codec_vars, view_vars, clock_vars, scan_vars>>

beyond_chain == <<store_vars, pure_vars, app_vars, dir_vars>>
beyond_store == <<chain_vars, pure_vars>>

vars == <<proof_of_work_size, chain_vars, store_vars, app_vars, pure_vars, dir_vars>>

\* ------------------------------------------------------------------- Hash

\* Hash::empty(): the all-zero digest.
ROOT == <<>>

is_root(h) == h = ROOT

\* Element i (0-based) of a Vec or slice.
Get(s, i) == s[i + 1]

\* BlockPayload::hash: SHA-256 over parent, timestamp, data, proof_of_work.
PayloadHash(p) == <<p.parent, p.timestamp, p.data, p.proof_of_work>>

\* Byte i of a digest (Hash.0[i]).  ROOT is all zeros.  The leading bytes of a
\* computed digest are a fixed function of what was hashed, and every value of
\* them is met once as the nonce runs over 0..MaxNonce: byte 0 is zero for two
\* of these values and byte 1 for one of those two.
HashByte(h, i) ==
    IF h = ROOT THEN 0
    ELSE LET mix == (h[2] + h[3] + h[4]) % (MaxNonce + 1)
         IN  IF i = 0 THEN (IF mix < 2 THEN 0 ELSE mix)
             ELSE IF i = 1 THEN mix
             ELSE 1

\* Hash::meets_proof_of_work: exactly proof_of_work_size leading zero bytes.
meets_proof_of_work(h, size) ==
    /\ \A i \in 0..(size - 1) : HashByte(h, i) = 0
    /\ HashByte(h, size) # 0

MkBlock(payload, elapsed) ==
    [hash |-> PayloadHash(payload), computation_time |-> elapsed, payload |-> payload]

\* ------------------------------------------------------------- BlockChain

\* BlockChain::tip as the parent of the next block.
TipHash(bl) == IF bl = <<>> THEN ROOT ELSE bl[Len(bl)].hash

\* The payload add_data builds before any proof of work.
NewPayload(bl, data, ts) ==
    [parent |-> TipHash(bl), timestamp |-> ts, data |-> data, proof_of_work |-> 0]

\* The nonces add_payload may end with: 0 on the no-work path, and on the
\* proof-of-work path any nonce whose digest has exactly size zero bytes.
Nonces(payload, size) ==
    IF size = 0 THEN {0}
    ELSE {n \in 0..MaxNonce :
            LET h == PayloadHash([payload EXCEPT !.proof_of_work = n])
            IN  /\ \A i \in 0..(size - 1) : HashByte(h, i) = 0
                /\ HashByte(h, size) # 0}

\* BlockChain::add_data followed by add_payload.
add_data(bl, size, data, ts, elapsed, nonce) ==
    Append(bl, MkBlock([NewPayload(bl, data, ts) EXCEPT !.proof_of_work = nonce], elapsed))

\* Option<usize>::None.
None == 0 - 1

\* hash_to_block_index that only looks at the tip.
hash_to_block_index_OnlyTip(bl, h) ==
    IF bl # <<>> /\ bl[Len(bl)].hash = h THEN Len(bl) - 1 ELSE None

\* hash_to_block_index with a search that stops one block short of the root.
hash_to_block_index_SkipsRoot(bl, h) ==
    LET hits == {i \in 1..(Len(bl) - 1) : Get(bl, i).hash = h}
    IN  IF hits = {} THEN None
        ELSE CHOOSE i \in hits : \A j \in hits : j <= i

\* BlockChain::hash_to_block_index: the index of the block with that hash,
\* searching from the tip.
hash_to_block_index(bl, h) ==
    LET hits == {i \in 0..(Len(bl) - 1) : Get(bl, i).hash = h}
    IN  IF hits = {} THEN None
        ELSE CHOOSE i \in hits : \A j \in hits : j <= i

\* verify_blocks without the comparison of payload.parent.
RECURSIVE verify_blocks_NoParent(_, _, _)
verify_blocks_NoParent(size, bs, parent) ==
    IF bs = <<>> THEN TRUE
    ELSE LET block == Head(bs)
             hash == PayloadHash(block.payload)
         IN  IF block.hash # hash THEN FALSE
             ELSE IF \E i \in 0..(size - 1) : HashByte(block.hash, i) # 0 THEN FALSE
             ELSE verify_blocks_NoParent(size, Tail(bs), hash)

\* verify_blocks trusting the hash field instead of recomputing it.
RECURSIVE verify_blocks_TrustsHash(_, _, _)
verify_blocks_TrustsHash(size, bs, parent) ==
    IF bs = <<>> THEN TRUE
    ELSE LET block == Head(bs)
         IN  IF block.payload.parent # parent THEN FALSE
             ELSE IF \E i \in 0..(size - 1) : HashByte(block.hash, i) # 0 THEN FALSE
             ELSE verify_blocks_TrustsHash(size, Tail(bs), block.hash)

\* verify_blocks: every block names the block before it, carries the digest of
\* its payload, and has proof_of_work_size leading zero bytes.
RECURSIVE verify_blocks(_, _, _)
verify_blocks(size, bs, parent) ==
    IF bs = <<>> THEN TRUE
    ELSE LET block == Head(bs)
             hash == PayloadHash(block.payload)
         IN  IF block.payload.parent # parent THEN FALSE
             ELSE IF block.hash # hash THEN FALSE
             ELSE IF \E i \in 0..(size - 1) : HashByte(block.hash, i) # 0 THEN FALSE
             ELSE verify_blocks(size, Tail(bs), hash)

\* Option::unwrap on None inside the fast-forward loop.
UnwrapNone == 0 - 2

\* The fast-forward loop of reconcile: the last index at which the local and the
\* foreign block are equal, or UnwrapNone when the foreign slice runs out.
RECURSIVE FastForward(_, _, _, _, _)
FastForward(bl, fb, parent_block_index, index, last_trusted_index) ==
    IF index >= Len(bl) THEN last_trusted_index
    ELSE IF index - parent_block_index - 1 >= Len(fb) THEN UnwrapNone
    ELSE IF Get(bl, index) = Get(fb, index - parent_block_index - 1)
         THEN FastForward(bl, fb, parent_block_index, index + 1, index)
         ELSE last_trusted_index

Outcome(res, bl) == [result |-> res, blocks |-> bl]

\* Adopt without the truncate.
Adopt_NoTruncate(bl, last_trusted_index, new_foreign_blocks) ==
    bl \o new_foreign_blocks

\* self.blocks.truncate(last_trusted_index + 1); extend_from_slice(new blocks).
Adopt(bl, last_trusted_index, new_foreign_blocks) ==
    SubSeq(bl, 1, last_trusted_index + 1) \o new_foreign_blocks

\* The length check with >= in place of >.
ShorterForeign_OrEqual(trusted_len, foreign_len) == trusted_len >= foreign_len

\* trusted_len > foreign_len: the local chain wins.
ShorterForeign(trusted_len, foreign_len) == trusted_len > foreign_len

\* The truncate moved before the verification.
Malformed_Truncated(bl, last_trusted_index) ==
    Outcome("MalformedBlocks", SubSeq(bl, 1, last_trusted_index + 1))

\* return Err(MalformedBlocks): nothing was truncated yet.
Malformed(bl, last_trusted_index) == Outcome("MalformedBlocks", bl)

\* reconcile once the parent block is found.
ReconcileFrom(bl, size, fb, parent_block_index) ==
    LET last_trusted_index ==
            FastForward(bl, fb, parent_block_index, parent_block_index + 1, parent_block_index)
    IN  IF last_trusted_index = UnwrapNone THEN Outcome("Panic", bl)
        ELSE LET new_foreign_block_base_index == last_trusted_index - parent_block_index
                 trusted_len == Len(bl) - last_trusted_index - 1
                 foreign_len == Len(fb) - (last_trusted_index - parent_block_index)
                 new_foreign_blocks == SubSeq(fb, new_foreign_block_base_index + 1, Len(fb))
             IN  IF ShorterForeign(trusted_len, foreign_len)
                 THEN Outcome("ShorterForeignBlocks", bl)
                 ELSE IF ~verify_blocks(size, new_foreign_blocks,
                                        Get(bl, last_trusted_index).hash)
                 THEN Malformed(bl, last_trusted_index)
                 ELSE Outcome("Ok", Adopt(bl, last_trusted_index, new_foreign_blocks))

\* DropRoot that keeps the root block.
DropRoot_Keeps(foreign_blocks) == foreign_blocks

\* The slice reconcile goes on with: a first block whose parent is ROOT is dropped.
DropRoot(foreign_blocks) ==
    IF is_root(Head(foreign_blocks).payload.parent) THEN Tail(foreign_blocks)
    ELSE foreign_blocks

\* reconcile without the empty check: the slice goes on to first().unwrap().
reconcile_NoEmptyCheck(bl, size, foreign_blocks) ==
    IF foreign_blocks = <<>> THEN Outcome("Panic", bl)
    ELSE LET fb == DropRoot(foreign_blocks)
         IN  IF fb = <<>> THEN Outcome("Panic", bl)
             ELSE LET parent_block_index == hash_to_block_index(bl, Head(fb).payload.parent)
                  IN  IF parent_block_index = None
                      THEN Outcome("NoMatchingParent", bl)
                      ELSE ReconcileFrom(bl, size, fb, parent_block_index)

\* reconcile that counts an empty slice as a shorter foreign tail.
reconcile_EmptyIsShorter(bl, size, foreign_blocks) ==
    IF foreign_blocks = <<>>
    THEN Outcome(IF bl = <<>> THEN "Ok" ELSE "ShorterForeignBlocks", bl)
    ELSE LET fb == DropRoot(foreign_blocks)
         IN  IF fb = <<>> THEN Outcome("Panic", bl)
             ELSE LET parent_block_index == hash_to_block_index(bl, Head(fb).payload.parent)
                  IN  IF parent_block_index = None
                      THEN Outcome("NoMatchingParent", bl)
                      ELSE ReconcileFrom(bl, size, fb, parent_block_index)

\* BlockChain::reconcile: what it returns and the blocks it leaves.  "Panic" is
\* an unwrap of None, which unwinds before any block was touched.
reconcile(bl, size, foreign_blocks) ==
    IF foreign_blocks = <<>> THEN Outcome("Ok", bl)
    ELSE LET fb == DropRoot(foreign_blocks)
         IN  IF fb = <<>> THEN Outcome("Panic", bl)
             ELSE LET parent_block_index == hash_to_block_index(bl, Head(fb).payload.parent)
                  IN  IF parent_block_index = None
                      THEN Outcome("NoMatchingParent", bl)
                      ELSE ReconcileFrom(bl, size, fb, parent_block_index)

\* ------------------------------------------------------- the peer's blocks

\* The hashes a peer can name without inventing one: ROOT and the hashes of the
\* local blocks.
WireHashes(bl) == {ROOT} \cup {bl[i].hash : i \in 1..Len(bl)}

\* What a received block may be in place of the block b a peer built: b with one
\* field changed, its hash field left stale or recomputed from the payload.
Forged(b, bl) ==
    {[b EXCEPT !.hash = h] : h \in WireHashes(bl)}
    \cup {[b EXCEPT !.payload.parent = h] : h \in WireHashes(bl)}
    \cup {MkBlock([b.payload EXCEPT !.parent = h], b.computation_time) : h \in WireHashes(bl)}
    \cup {[b EXCEPT !.payload.data = d] : d \in DataValues}
    \cup {MkBlock([b.payload EXCEPT !.data = d], b.computation_time) : d \in DataValues}
    \cup {MkBlock([b.payload EXCEPT !.proof_of_work = n], b.computation_time) : n \in 0..MaxNonce}
    \cup {[b EXCEPT !.computation_time = e] : e \in WireElapsed}

\* The slices reconcile is called with: a suffix of the peer's blocks, as built
\* or with one block forged.
ForeignSlices(fr, bl) ==
    LET suffixes == {SubSeq(fr, from, Len(fr)) : from \in 1..(Len(fr) + 1)}
    IN  suffixes \cup
        UNION {UNION {{[s EXCEPT ![k] = f] : f \in Forged(s[k], bl)} : k \in 1..Len(s)} :
               s \in suffixes}

\* ----------------------------------------------------------- FsChainStore

\* heads/<head_ref>: absent, holding the 64 hex digits of a hash, or holding
\* something resolve_ref does not parse (a write that failed half-way).
NoHead == [exists |-> FALSE, valid |-> FALSE, hash |-> ROOT]
HeadOf(h) == [exists |-> TRUE, valid |-> TRUE, hash |-> h]
BrokenHead == [exists |-> TRUE, valid |-> FALSE, hash |-> ROOT]

\* chains/<hh>/<rest62>: a file holding the JSON array of some blocks, or a
\* file that File::create made and the serializer did not fill.
ChunkOf(bs) == [written |-> TRUE, blocks |-> bs]
EmptyChunk == [written |-> FALSE, blocks |-> <<>>]

\* tip_string.str()[0..2]: the two hex digits of the first byte of a hash.
Prefix(h) == HashByte(h, 0)

\* The files and directories under the root path.
Disk(dirs, chunks, head) == [prefix_dirs |-> dirs, chunk_files |-> chunks, head_file |-> head]

\* What the file system may answer a persist with.
Faults == {"none", "create_dir", "create_file", "serialize", "write_head", "truncate_head"}

\* persist that serializes the tip alone, whatever is unpersisted before it.
root_index_TipOnly(bl, chunks, i) == i

\* persist: the first block of the window to serialize, walking from index i
\* towards the root until a ROOT parent or a parent whose chunk file exists.
RECURSIVE root_index(_, _, _)
root_index(bl, chunks, i) ==
    LET parent == Get(bl, i).payload.parent
    IN  IF is_root(parent) \/ parent \in DOMAIN chunks \/ i = 0 THEN i
        ELSE root_index(bl, chunks, i - 1)

\* What a persist leaves: its result, the disk, and unpersisted_block_count.
Persisted(res, disk, count) == [result |-> res, disk |-> disk, count |-> count]

\* persist that wrote the chunk and now writes the head file.
write_head(disk, count, tip, fault) ==
    IF fault = "write_head" THEN Persisted("FailedToWriteFile", disk, count)
    ELSE IF fault = "truncate_head"
    THEN Persisted("FailedToWriteFile", [disk EXCEPT !.head_file = BrokenHead], count)
    ELSE Persisted("Ok", [disk EXCEPT !.head_file = HeadOf(tip)], 0)

\* persist from File::create on: the chunk file of the tip does not exist yet.
write_chunk(bl, disk, count, tip, fault) ==
    IF fault = "create_file" THEN Persisted("FileSystem", disk, count)
    ELSE IF fault = "serialize"
    THEN Persisted("FailedToSerializeToFile",
                   [disk EXCEPT !.chunk_files = (tip :> EmptyChunk) @@ @], count)
    ELSE LET first == root_index(bl, disk.chunk_files, Len(bl) - 1)
             window == SubSeq(bl, first + 1, Len(bl))
         IN  write_head([disk EXCEPT !.chunk_files = (tip :> ChunkOf(window)) @@ @],
                        count, tip, fault)

\* The early return of persist: the chunk file of the tip exists.
already_serialized(disk, count) == Persisted("Ok", disk, 0)

\* persist without the early return for a tip whose chunk file exists: it
\* creates and writes the chunk file and the head file on every call.
persist_AlwaysWrites(bl, disk, count, fault) ==
    IF bl = <<>> THEN Persisted("Ok", disk, count)
    ELSE LET tip == TipHash(bl)
         IN  IF Prefix(tip) \notin disk.prefix_dirs /\ fault = "create_dir"
             THEN Persisted("FailedToCreateDirectory", disk, count)
             ELSE write_chunk(bl, [disk EXCEPT !.prefix_dirs = @ \cup {Prefix(tip)}],
                              count, tip, fault)

\* FsChainStore::persist.
persist(bl, disk, count, fault) ==
    IF bl = <<>> THEN Persisted("Ok", disk, count)
    ELSE LET tip == TipHash(bl)
         IN  IF Prefix(tip) \notin disk.prefix_dirs /\ fault = "create_dir"
             THEN Persisted("FailedToCreateDirectory", disk, count)
             ELSE LET made == [disk EXCEPT !.prefix_dirs = @ \cup {Prefix(tip)}]
                  IN  IF tip \in DOMAIN disk.chunk_files
                      THEN already_serialized(made, count)
                      ELSE write_chunk(bl, made, count, tip, fault)

\* What a load leaves: its result and the in-memory blocks.
Loaded(res, bl) == [result |-> res, blocks |-> bl]

\* load_next_parent_chain that pushes the blocks of the chunk to the front in
\* the order of the file, without rev(): the chunk ends up tip first.
load_next_parent_chain_NoRev(bl, disk) ==
    IF bl = <<>> /\ ~disk.head_file.exists THEN Loaded("None", bl)
    ELSE IF bl = <<>> /\ ~disk.head_file.valid THEN Loaded("InvalidRefHash", bl)
    ELSE LET hash == IF bl # <<>> THEN bl[1].payload.parent ELSE disk.head_file.hash
         IN  IF is_root(hash) THEN Loaded("None", bl)
             ELSE IF hash \notin DOMAIN disk.chunk_files THEN Loaded("FileSystem", bl)
             ELSE IF ~disk.chunk_files[hash].written
             THEN Loaded("JsonSerializationError", bl)
             ELSE LET stored == disk.chunk_files[hash].blocks
                  IN  Loaded("Some",
                             [i \in 1..Len(stored) |-> stored[Len(stored) + 1 - i]] \o bl)

\* load_next_parent_chain that takes a chunk file it cannot open for the end
\* of the chain.
load_next_parent_chain_MissingIsDone(bl, disk) ==
    IF bl = <<>> /\ ~disk.head_file.exists THEN Loaded("None", bl)
    ELSE IF bl = <<>> /\ ~disk.head_file.valid THEN Loaded("InvalidRefHash", bl)
    ELSE LET hash == IF bl # <<>> THEN bl[1].payload.parent ELSE disk.head_file.hash
         IN  IF is_root(hash) \/ hash \notin DOMAIN disk.chunk_files THEN Loaded("None", bl)
             ELSE IF ~disk.chunk_files[hash].written
             THEN Loaded("JsonSerializationError", bl)
             ELSE Loaded("Some", disk.chunk_files[hash].blocks \o bl)

\* FsChainStore::load_next_parent_chain: "Some" and "None" are its Ok values.
load_next_parent_chain(bl, disk) ==
    IF bl = <<>> /\ ~disk.head_file.exists THEN Loaded("None", bl)
    ELSE IF bl = <<>> /\ ~disk.head_file.valid THEN Loaded("InvalidRefHash", bl)
    ELSE LET hash == IF bl # <<>> THEN bl[1].payload.parent ELSE disk.head_file.hash
         IN  IF is_root(hash) THEN Loaded("None", bl)
             ELSE IF hash \notin DOMAIN disk.chunk_files THEN Loaded("FileSystem", bl)
             ELSE IF ~disk.chunk_files[hash].written
             THEN Loaded("JsonSerializationError", bl)
             ELSE Loaded("Some", disk.chunk_files[hash].blocks \o bl)

\* The loop of load_all_chains after loads chunk files were loaded.  The next
\* file to load depends on the file loaded last alone, so once more loads
\* were made than there are files the loop repeats itself and never breaks:
\* "Diverges" stands for the call that does not return.
RECURSIVE LoadLoop(_, _, _)
LoadLoop(bl, disk, loads) ==
    LET next == load_next_parent_chain(bl, disk)
    IN  IF next.result = "Some"
        THEN (IF loads >= Cardinality(DOMAIN disk.chunk_files)
              THEN Loaded("Diverges", next.blocks)
              ELSE LoadLoop(next.blocks, disk, loads + 1))
        ELSE IF next.result = "None" THEN Loaded("Ok", next.blocks)
        ELSE next

\* FsChainStore::load_all_chains.
load_all_chains(bl, disk) == LoadLoop(bl, disk, 0)

\* The second store: not opened, or opened by try_new and then loaded.
NotOpened == [opened |-> FALSE, loaded |-> "None", chain |-> <<>>]
Opened(load) == [opened |-> TRUE, loaded |-> load.result, chain |-> load.blocks]

\* ---------------------------------------------------------------- HeadRef

\* Characters a name is made of: a letter of each case, a digit, the two
\* punctuation marks the comment allows, and two it does not.
NameChars == {"a", "Z", "7", "_", "-", "/", "."}

\* Longest name tried.
MaxNameLen == 3

\* The names HeadRef::try_from is tried on, the empty one included.
Names == UNION {[1..n -> NameChars] : n \in 0..MaxNameLen}

\* char::is_ascii_alphanumeric.
is_ascii_alphanumeric(ch) == ch \in {"a", "Z", "7"}

\* HeadRef::validate_name: the loop returns true at the first character that
\* is allowed, false when it runs out of characters.
RECURSIVE validate_name(_)
validate_name(n) ==
    IF n = <<>> THEN FALSE
    ELSE IF is_ascii_alphanumeric(Head(n)) \/ Head(n) = "_" \/ Head(n) = "-" THEN TRUE
    ELSE validate_name(Tail(n))

\* What HeadRef::try_from returns: Ok(HeadRef(name)) or an error.
NotTried == [tried |-> FALSE, ok |-> FALSE, str |-> <<>>]
HeadRefOk(n) == [tried |-> TRUE, ok |-> TRUE, str |-> n]
HeadRefErr == [tried |-> TRUE, ok |-> FALSE, str |-> <<>>]

\* TryFrom<String> and TryFrom<&str> for HeadRef.
try_from(n) == IF ~validate_name(n) THEN HeadRefErr ELSE HeadRefOk(n)

\* ------------------------------------------------------ Action and State

\* The actions that are dispatched, each written as the number its serialized
\* bytes stand for in a block.
ActionValues == {1, 2, 3, 4}

\* Action: two plots to create, a move of the player, a tick of the game.
ActionOf(d) ==
    IF d = 1 THEN [type |-> "Chain", kind |-> "CreatePlot", value |-> 1]
    ELSE IF d = 2 THEN [type |-> "Chain", kind |-> "CreatePlot", value |-> 2]
    ELSE IF d = 3 THEN [type |-> "Chain", kind |-> "MovePlayer", value |-> 1]
    ELSE [type |-> "Game", kind |-> "TickGame", value |-> 1]

\* Action::Chain(_), as against Action::Game(_).
IsChainAction(d) == ActionOf(d).type = "Chain"

\* Option<T>: None is the empty sequence, Some(v) the sequence of v.
Some(v) == <<v>>

\* State::new.
State_new == [my_garden |-> <<>>, game_tick |-> Some(0), player_position |-> <<>>]

\* reducers::garden that lets a later CreatePlot override the garden.
garden_Overrides(st, action) ==
    IF action.kind = "CreatePlot" THEN Some(action.value) ELSE st

\* reducers::garden that returns a clone of the plot it was given.
garden_ClonesPlot(st, action) ==
    IF action.kind = "CreatePlot"
    THEN (IF st # <<>> THEN Some([action.value EXCEPT !.value = st[1].value])
          ELSE Some(action.value))
    ELSE st

\* reducers::garden: the first plot created stays.
garden(st, action) ==
    IF action.kind = "CreatePlot"
    THEN (IF st # <<>> THEN st ELSE Some(action.value))
    ELSE st

\* reducers::game_tick.
game_tick(st, action) == IF action.kind = "TickGame" THEN Some(action.value) ELSE st

\* reducers::player_position written as reducers::move_intent is: a tick of
\* the game clears it.
player_position_ClearedByTick(st, action) ==
    IF action.kind = "MovePlayer" THEN Some(action.value)
    ELSE IF action.kind = "TickGame" THEN <<>>
    ELSE st

\* reducers::player_position.
player_position(st, action) ==
    IF action.kind = "MovePlayer" THEN Some(action.value) ELSE st

\* State::reduce: combine_reducers over the three members.
reduce(st, action) ==
    [my_garden |-> garden(st.my_garden, action),
     game_tick |-> game_tick(st.game_tick, action),
     player_position |-> player_position(st.player_position, action)]

\* ------------------------------------------------------------------ Store

\* Most actions dispatched on one Store.
MaxActions == 2

\* ChainStore::iter_all: load every chunk, then hand out the blocks root to
\* tip; it fails when a chunk is missing or the chain is still partial.
iter_all(disk) ==
    LET all == load_all_chains(<<>>, disk)
    IN  IF all.result # "Ok" THEN all
        ELSE IF all.blocks # <<>> /\ ~is_root(all.blocks[1].payload.parent)
        THEN Loaded("MissingParent", all.blocks)
        ELSE all

\* What Store::try_new returns: Ok(store) with its state, or an error.
Verified(st) == [ok |-> TRUE, state |-> st]
Bailed == [ok |-> FALSE, state |-> State_new]

\* load_untrusted_chain_store that does not recompute the hashes.
RECURSIVE load_untrusted_chain_store_NoHash(_, _, _)
load_untrusted_chain_store_NoHash(bs, prev_hash, st) ==
    IF bs = <<>> THEN Verified(st)
    ELSE IF prev_hash # Head(bs).payload.parent THEN Bailed
    ELSE load_untrusted_chain_store_NoHash(Tail(bs), Head(bs).hash,
                                           reduce(st, ActionOf(Head(bs).payload.data)))

\* load_untrusted_chain_store that reduces each block from a fresh State.
RECURSIVE load_untrusted_chain_store_FreshState(_, _, _)
load_untrusted_chain_store_FreshState(bs, prev_hash, st) ==
    IF bs = <<>> THEN Verified(st)
    ELSE IF prev_hash # Head(bs).payload.parent THEN Bailed
    ELSE IF PayloadHash(Head(bs).payload) # Head(bs).hash THEN Bailed
    ELSE load_untrusted_chain_store_FreshState(
             Tail(bs), Head(bs).hash, reduce(State_new, ActionOf(Head(bs).payload.data)))

\* Store::load_untrusted_chain_store: the loop over the blocks of iter_all,
\* from the block after the one with hash prev_hash on.
RECURSIVE load_untrusted_chain_store(_, _, _)
load_untrusted_chain_store(bs, prev_hash, st) ==
    IF bs = <<>> THEN Verified(st)
    ELSE IF prev_hash # Head(bs).payload.parent THEN Bailed
    ELSE IF PayloadHash(Head(bs).payload) # Head(bs).hash THEN Bailed
    ELSE load_untrusted_chain_store(Tail(bs), Head(bs).hash,
                                    reduce(st, ActionOf(Head(bs).payload.data)))

\* The second Store: FsChainStore::try_new on the directory as found, then
\* Store::try_new on that chain store.
NoStore2 == [opened |-> FALSE, edited |-> FALSE, loaded |-> "None", chain |-> <<>>,
             ok |-> FALSE, state |-> State_new]
Store_try_new(disk, edited) ==
    LET all == iter_all(disk)
        v == IF all.result = "Ok"
             THEN load_untrusted_chain_store(all.blocks, ROOT, State_new)
             ELSE Bailed
    IN  [opened |-> TRUE, edited |-> edited, loaded |-> all.result, chain |-> all.blocks,
         ok |-> v.ok, state |-> v.state]

\* The directory as someone left it who changed one block of one chunk file.
EditedDisks(disk, bl) ==
    UNION {UNION {{[disk EXCEPT !.chunk_files[h].blocks[k] = f] :
                      f \in Forged(disk.chunk_files[h].blocks[k], bl)} :
                  k \in 1..Len(disk.chunk_files[h].blocks)} :
           h \in DOMAIN disk.chunk_files}

\* No dispatch yet.
NoDispatch == [called |-> FALSE, action |-> 0, state |-> State_new, chain |-> <<>>]

\* -------------------------------------------------------- Hash hex codec

\* The bytes of the array in Hash(pub [u8; 32]), at the size of the model: the
\* codec treats every byte, and every pair of characters, alike.
HashLen == 2

\* The byte values a Hash is tried with.
ByteValues == {0, 10, 171, 255}

\* The byte arrays String::from is tried on.
HashArrays == [1..HashLen -> ByteValues]

\* The characters a string is tried with: hex digits of both cases, a sign, a
\* letter that is no digit, and a character that takes two bytes in UTF-8.
TextChars == {"0", "a", "F", "+", "g", "U+00E9"}

\* The strings Hash::try_from is tried on, up to one character too long.
Texts == UNION {[1..n -> TextChars] : n \in 0..(2 * HashLen + 1)}

\* The sixteen digits of {:02x}, and their upper-case forms from ten on.
LowerDigits == <<"0", "1", "2", "3", "4", "5", "6", "7", "8", "9",
                 "a", "b", "c", "d", "e", "f">>
UpperDigits == <<"A", "B", "C", "D", "E", "F">>

\* {:x} in place of {:02x}: no leading zero.
Hex02_Unpadded(byte) ==
    IF byte < 16 THEN <<LowerDigits[byte + 1]>>
    ELSE <<LowerDigits[(byte \div 16) + 1], LowerDigits[(byte % 16) + 1]>>

\* write!(f, "{:02x}", byte): two lower-case digits.
Hex02(byte) == <<LowerDigits[(byte \div 16) + 1], LowerDigits[(byte % 16) + 1]>>

\* Display for Hash / String::from(&Hash): the digits of every byte in turn.
RECURSIVE String_from(_)
String_from(h) == IF h = <<>> THEN <<>> ELSE Hex02(Head(h)) \o String_from(Tail(h))

\* char::to_digit(16): the value of a digit of either case, None otherwise.
to_digit(ch) ==
    IF \E i \in 1..16 : LowerDigits[i] = ch
    THEN (CHOOSE i \in 1..16 : LowerDigits[i] = ch) - 1
    ELSE IF \E i \in 1..6 : UpperDigits[i] = ch
    THEN (CHOOSE i \in 1..6 : UpperDigits[i] = ch) + 9
    ELSE None

\* The value of a run of digits, None when one of them is no digit.
RECURSIVE DigitsValue(_, _)
DigitsValue(digits, acc) ==
    IF digits = <<>> THEN acc
    ELSE IF to_digit(Head(digits)) = None THEN None
    ELSE DigitsValue(Tail(digits), acc * 16 + to_digit(Head(digits)))

\* u8::from_str_radix(src, 16): no digit at all is an error, one leading "+"
\* is skipped (a "-" is not, the type being unsigned); None is Err(_).
from_str_radix(src) ==
    IF src = <<>> THEN None
    ELSE IF Len(src) = 1 /\ Head(src) \in {"+", "-"} THEN None
    ELSE IF Head(src) = "+" THEN DigitsValue(Tail(src), 0)
    ELSE DigitsValue(src, 0)

\* The bytes of a string in UTF-8: a character of one byte is itself, the
\* character of two bytes is a lead byte and a continuation byte.
RECURSIVE Utf8(_)
Utf8(text) ==
    IF text = <<>> THEN <<>>
    ELSE (IF Head(text) = "U+00E9" THEN <<"lead", "continuation">> ELSE <<Head(text)>>)
         \o Utf8(Tail(text))

\* str::is_char_boundary on the bytes of a string.
is_char_boundary(bytes, index) ==
    index = Len(bytes) \/ (index < Len(bytes) /\ bytes[index + 1] # "continuation")

\* What the codec hands back: Ok(hash), Ok(string), an error, or a panic.
OkHash(h) == [result |-> "Ok", hash |-> h, text |-> <<>>]
OkText(t) == [result |-> "Ok", hash |-> <<>>, text |-> t]
CodecErr == [result |-> "Err", hash |-> <<>>, text |-> <<>>]
CodecPanic == [result |-> "Panic", hash |-> <<>>, text |-> <<>>]

\* The loop of try_from from byte array index i on: &other[i * 2..i * 2 + 2]
\* panics off a character boundary, and the two bytes are parsed as a u8.
RECURSIVE ParsePairs(_, _, _)
ParsePairs(bytes, i, acc) ==
    IF i = Len(bytes) \div 2 THEN OkHash(acc)
    ELSE IF ~is_char_boundary(bytes, i * 2) \/ ~is_char_boundary(bytes, i * 2 + 2)
    THEN CodecPanic
    ELSE LET pair == IF bytes[i * 2 + 1] = "lead" THEN <<"U+00E9">>
                     ELSE SubSeq(bytes, i * 2 + 1, i * 2 + 2)
             v == from_str_radix(pair)
         IN  IF v = None THEN CodecErr ELSE ParsePairs(bytes, i + 1, Append(acc, v))

\* TryFrom<&str> for Hash: other.len(), the length in bytes, must be that of
\* the digits of a Hash (64 in the code).
Hash_try_from(other) ==
    IF Len(Utf8(other)) # 2 * HashLen THEN CodecErr
    ELSE ParsePairs(Utf8(other), 0, <<>>)

\* A run of the codec: what it starts from and what the first and the second
\* conversion returned.
NoCodec == [start |-> "none", hash |-> <<>>, text |-> <<>>, step |-> 0,
            first |-> CodecErr, second |-> CodecErr]
FromHash(h) == [NoCodec EXCEPT !.start = "hash", !.hash = h]
FromText(t) == [NoCodec EXCEPT !.start = "text", !.text = t]

\* ---------------------------------------------------------------- actions

Results == {"Ok", "NoMatchingParent", "ShorterForeignBlocks", "MalformedBlocks", "Panic"}
Errors == {"NoMatchingParent", "ShorterForeignBlocks", "MalformedBlocks"}

\* The blocks of bl that add_data does not build in this model.
OddBlocks(bl, size) ==
    {i \in 1..Len(bl) :
        \/ bl[i].computation_time \notin LocalElapsed
        \/ bl[i].payload.proof_of_work
             \notin Nonces([bl[i].payload EXCEPT !.proof_of_work = 0], size)}

\* Where the caller is after a call that ended with res: a panic unwinds it.
After(res, returned) == IF res = "Panic" THEN "aborted" ELSE returned

\* BlockChain::new and a peer that holds nothing yet; no reconcile was called.
InitBlockChain ==
    /\ blocks = <<>>
    /\ foreign = <<>>
    /\ pc = "idle"
    /\ arg = <<>>
    /\ before = <<>>
    /\ result = "None"
    /\ first_result = "None"

\* FsChainStore::try_new on an empty directory.
InitFsChainStore ==
    /\ chain = <<>>
    /\ unpersisted_block_count = 0
    /\ prefix_dirs = {}
    /\ chunk_files = <<>>
    /\ head_file = NoHead
    /\ persisted = "None"
    /\ faulted = FALSE
    /\ marks = {}
    /\ persisted_chain = <<>>
    /\ persist_before = "None"
    /\ new_chain_store = NotOpened

\* No HeadRef was asked for.
InitNoName ==
    /\ name = <<>>
    /\ head_ref = NotTried

\* Store::try_new on that chain store; nothing was dispatched.
InitStore ==
    /\ state = State_new
    /\ dispatched = NoDispatch
    /\ store2 = NoStore2

\* ------------------------------------------------------------ selectors

\* Most allocations (Rc::new, Rc::from) of one run.
MaxAllocs == 9

\* Most Rc<TestState> values the test holds.
MaxStates == 3

\* The Position and Size values of a TestState.
Positions == {0, 1}
Sizes == {5}

\* Rc::new(value), Rc::from(value): a value at an address of its own.
Rc_new(addr, value) == [ptr |-> addr, value |-> value]

\* Rc::ptr_eq.
ptr_eq(a, b) == a.ptr = b.ptr

\* The four impls of MaybeRc: for Rc<T> ("Rc"), for Option<Rc<T>>
\* ("OptionRc"), for T: Copy ("Copy") and for Option<T> with T: Copy
\* ("OptionCopy").  Panicked is what a method that panics gives.
Panicked == "panic!"

\* MaybeRc::cache_is_some.
cache_is_some(type, x) == IF type \in {"Rc", "Copy"} THEN TRUE ELSE x # <<>>

\* MaybeRc::are_contents_copyable.
are_contents_copyable(type) == type \in {"Copy", "OptionCopy"}

\* MaybeRc::unwrap_copyable_value: *self for T: Copy, a panic in every other
\* impl, the one for Option<T> included.
unwrap_copyable_value(type, x) == IF type = "Copy" THEN x ELSE Panicked

\* MaybeRc::cache_unwrap.
cache_unwrap(type, x) ==
    IF type = "Rc" THEN x ELSE IF type = "OptionRc" THEN x[1] ELSE Panicked

\* RefCell::new(None) in both thread-locals.
EmptyCache == [args |-> <<>>, returns |-> <<>>]

\* The comparison of one selector value with the cached one.
Differs(type, x, cached) ==
    \/ cache_is_some(type, x) # cache_is_some(type, cached)
    \/ /\ cache_is_some(type, x)
       /\ IF are_contents_copyable(type)
          THEN unwrap_copyable_value(type, x) # unwrap_copyable_value(type, cached)
          ELSE ~ptr_eq(cache_unwrap(type, x), cache_unwrap(type, cached))

\* The comparison of one selector value with the cached one calls a method
\* that panics: unwrap_copyable_value of an impl other than the one for
\* T: Copy, or cache_unwrap of an impl for a copyable type.
ComparisonPanics(type, x, cached) ==
    /\ cache_is_some(type, x) = cache_is_some(type, cached)
    /\ cache_is_some(type, x)
    /\ IF are_contents_copyable(type)
       THEN type # "Copy"
       ELSE type \notin {"Rc", "OptionRc"}

\* cache_matches once every selector value was compared.
cache_matches(types, cache, args) ==
    /\ cache.args # <<>>
    /\ \A i \in 1..Len(types) : ~Differs(types[i], args[i], cache.args[1][i])

\* The comparisons reach, with cache_matches still true, one that panics.
cache_panics(types, cache, args) ==
    /\ cache.args # <<>>
    /\ \E i \in 1..Len(types) :
          /\ ComparisonPanics(types[i], args[i], cache.args[1][i])
          /\ \A j \in 1..(i - 1) : ~Differs(types[j], args[j], cache.args[1][j])

\* What a call of a selector leaves: the caches, what it returned, whether the
\* contents ran, and whether it panicked.
Selected(cache, returned, ran) ==
    [cache |-> cache, result |-> returned, ran |-> ran, panicked |-> FALSE]
SelectorPanic(cache) ==
    [cache |-> cache, result |-> <<>>, ran |-> FALSE, panicked |-> TRUE]

\* A selector that fills its caches at the first call and never again: a later
\* miss runs the contents and returns what they made.
selector_NeverReplaces(types, cache, args, contents, addr) ==
    IF cache_matches(types, cache, args)
    THEN (IF cache.returns = <<>> THEN SelectorPanic(cache)
          ELSE Selected(cache, cache.returns[1], FALSE))
    ELSE LET return_value == Rc_new(addr, contents)
         IN  Selected(IF cache.args = <<>>
                      THEN [args |-> Some(args), returns |-> Some(return_value)]
                      ELSE cache,
                      return_value, TRUE)

\* A miss that leaves the cached arguments as they were.
selector_StaleArgs(types, cache, args, contents, addr) ==
    IF cache_matches(types, cache, args)
    THEN (IF cache.returns = <<>> THEN SelectorPanic(cache)
          ELSE Selected(cache, cache.returns[1], FALSE))
    ELSE LET return_value == Rc_new(addr, contents)
         IN  Selected([args |-> IF cache.args = <<>> THEN Some(args) ELSE cache.args,
                       returns |-> Some(return_value)],
                      return_value, TRUE)

\* selector!: the function the macro writes. args are the values of the input
\* selectors, contents what the body makes of them when it runs, addr the
\* address the body's Rc::from gets.
selector(types, cache, args, contents, addr) ==
    IF cache_panics(types, cache, args) THEN SelectorPanic(cache)
    ELSE IF cache_matches(types, cache, args)
    THEN (IF cache.returns = <<>> THEN SelectorPanic(cache)
          ELSE Selected(cache, cache.returns[1], FALSE))
    ELSE LET return_value == Rc_new(addr, contents)
         IN  Selected([args |-> Some(args), returns |-> Some(return_value)],
                      return_value, TRUE)

\* TestState of the test, behind its Rc.
TestState(addr, position, size) == [ptr |-> addr, position |-> position, size |-> size]

get_position(st) == st.position
get_size(st) == st.size

\* The contents of get_bbox.
get_bbox_contents(args) == [top_left |-> args[1].value, size |-> args[2].value]

\* get_bbox(state).
get_bbox(cache, st, addr) ==
    selector(<<"Rc", "Rc">>, cache, <<get_position(st), get_size(st)>>,
             get_bbox_contents(<<get_position(st), get_size(st)>>), addr)

\* selectors::get_my_garden.
get_my_garden(st) == st.my_garden

\* The contents of get_drawable_garden.
get_drawable_garden_contents(args) ==
    IF args[1] # <<>> THEN Some([plot |-> args[1][1]]) ELSE <<>>

\* get_drawable_garden(state); State.my_garden is an Option<Rc<GardenPlot>>,
\* compared as MaybeRc compares one.
get_drawable_garden(cache, st, addr) ==
    selector(<<"OptionRc">>, cache, <<get_my_garden(st)>>,
             get_drawable_garden_contents(<<get_my_garden(st)>>), addr)

\* The action d, the plot of a CreatePlot at the address that Rc::new in
\* reducers::garden moves it to.
ActionAt(d, addr) ==
    IF ActionOf(d).kind = "CreatePlot"
    THEN [ActionOf(d) EXCEPT !.value = Rc_new(addr, ActionOf(d).value)]
    ELSE ActionOf(d)

\* The GardenPlot of a my_garden slot, whatever its address.
PlotOf(slot) == IF slot = <<>> THEN <<>> ELSE Some(slot[1].value)

\* The last two calls of a selector.
Last2(calls, call) ==
    IF Len(calls) < 2 THEN Append(calls, call) ELSE <<calls[2], call>>

NoReduce == [called |-> FALSE, action |-> 0, state |-> State_new, first_plot |-> <<>>]
NoneSince == [reduces |-> FALSE, changed |-> FALSE]

\* No State, no TestState and no selector call yet.
InitNoView ==
    /\ heap = 0
    /\ rc_state = State_new
    /\ reduced = NoReduce
    /\ since_call = NoneSince
    /\ test_states = <<>>
    /\ selector_cache = [get_bbox |-> EmptyCache, get_drawable_garden |-> EmptyCache,
                         Copy |-> EmptyCache, OptionCopy |-> EmptyCache]
    /\ selector_calls = [get_bbox |-> <<>>, get_drawable_garden |-> <<>>,
                         Copy |-> <<>>, OptionCopy |-> <<>>]

\* ------------------------------------------- the life of a directory

\* Most calls that open a store on the directory or add a block, together.
MaxCalls == 4

\* Most blocks in memory after a load: chunk files that name each other are
\* loaded over and over.
MaxLoaded == 4

\* The hash load_next_parent_chain looks a chunk file up for: the parent of the
\* root-most block in memory, else what the head file holds.
NamedHash(bl, disk) == IF bl # <<>> THEN bl[1].payload.parent ELSE disk.head_file.hash

\* That hash is not ROOT and there is no chunk file of its name.
MissingChunk(bl, disk) ==
    /\ bl # <<>> \/ (disk.head_file.exists /\ disk.head_file.valid)
    /\ ~is_root(NamedHash(bl, disk))
    /\ NamedHash(bl, disk) \notin DOMAIN disk.chunk_files

\* The directory as someone left it who removed one chunk file.
RemovedDisks(disk) ==
    {[disk EXCEPT !.chunk_files = [k \in DOMAIN disk.chunk_files \ {h} |->
                                      disk.chunk_files[k]]] :
        h \in DOMAIN disk.chunk_files}

\* No load yet.
NoLoad == [call |-> "none", missing |-> FALSE, result |-> "None", placed |-> <<>>]

\* What the blocks in memory were before a load, and what the load returned.
LoadOf(call, bl, disk, r) ==
    [call |-> call, missing |-> MissingChunk(bl, disk), result |-> r.result,
     placed |-> SubSeq(r.blocks, 1, Len(r.blocks) - Len(bl))]

\* The first FsChainStore is open on the directory it created.
InitDir ==
    /\ dir_calls = 1
    /\ loaded = NoLoad
    /\ head_before = Loaded("None", <<>>)
    /\ tampered = FALSE

\* ----------------------------------------------------------- the clocks

\* The latest second a clock reaches.
MaxTime == 1

\* Both machines start within the same second.
InitClocks == now = [local |-> 0, peer |-> 0]

\* ------------------------------------------------------- the scan of chains/

\* Most entries under chains/.
MaxEntries == 2

\* The bytes of the hashes that chunk files are named after here.
ScanBytes == {10, 171}
ScanHashes == [1..HashLen -> ScanBytes]

\* An entry of chains/: a directory prefix with a file postfix in it, or a
\* regular file prefix in chains/ itself.
DirEntry(prefix, postfix) == [prefix |-> prefix, postfix |-> postfix, is_dir |-> TRUE]
FileEntry(file_name) == [prefix |-> file_name, postfix |-> <<>>, is_dir |-> FALSE]

\* The chunk file of a hash as persist names it: chains/<the first two digits>/
\* <the other digits>.
ChunkEntry(h) ==
    LET tip_string == String_from(h)
    IN  DirEntry(SubSeq(tip_string, 1, 2), SubSeq(tip_string, 3, Len(tip_string)))

\* The upper-case form of a character.
to_uppercase(ch) ==
    IF \E i \in 11..16 : LowerDigits[i] = ch
    THEN UpperDigits[(CHOOSE i \in 11..16 : LowerDigits[i] = ch) - 10]
    ELSE ch

\* What someone else may have put under chains/, told by the hash whose name
\* it is made from: a regular file in chains/ itself; in a directory a file
\* with a letter that is no digit, one a digit short, one in upper case, and
\* one under a prefix directory named by three digits.
ForeignEntries(h) ==
    LET t == String_from(h)
    IN  {FileEntry(SubSeq(t, 1, 2)),
         DirEntry(SubSeq(t, 1, 2), <<"g">> \o SubSeq(t, 4, Len(t))),
         DirEntry(SubSeq(t, 1, 2), SubSeq(t, 3, Len(t) - 1)),
         DirEntry([i \in 1..2 |-> to_uppercase(t[i])],
                  [i \in 1..(Len(t) - 2) |-> to_uppercase(t[i + 2])]),
         DirEntry(SubSeq(t, 1, 3), SubSeq(t, 4, Len(t)))}

\* What refresh_chains leaves: its result and chain_hashes.
Refreshed(res, hashes) == [result |-> res, chain_hashes |-> hashes]

\* FsChainStore::refresh_chains: read_dir of every entry of chains/, and
\* Hash::try_from on the name of the entry followed by the name of each file
\* in it.  read_dir of a regular file fails.
refresh_chains(entries) ==
    IF \E e \in entries : ~e.is_dir THEN Refreshed("CouldNotReadDirectory", {})
    ELSE Refreshed("Ok",
                   {Hash_try_from(e.prefix \o e.postfix).hash :
                       e \in {d \in entries :
                                 Hash_try_from(d.prefix \o d.postfix).result = "Ok"}})

\* Nothing under chains/ and no try_new yet.
InitScan ==
    /\ chains_dir = {}
    /\ chain_hashes = {}
    /\ refreshed = "None"

\* The hex codec was not called.
InitNoCodec == codec = NoCodec

Init ==
    /\ proof_of_work_size \in PowSizes
    /\ InitBlockChain
    /\ InitFsChainStore
    /\ InitNoName
    /\ InitStore
    /\ InitNoCodec
    /\ InitNoView
    /\ InitDir
    /\ InitClocks
    /\ InitScan

NoCall == UNCHANGED <<pc, arg, before, result, first_result>>

\* blocks.add_data(data) on the local chain.
AddData ==
    /\ pc = "idle"
    /\ Len(blocks) < MaxBlocks
    /\ \E data \in DataValues, ts \in Clock, elapsed \in LocalElapsed :
         \E nonce \in Nonces(NewPayload(blocks, data, ts), proof_of_work_size) :
            blocks' = add_data(blocks, proof_of_work_size, data, ts, elapsed, nonce)
    /\ NoCall
    /\ UNCHANGED <<proof_of_work_size, foreign>>
    /\ UNCHANGED beyond_chain

\* let mut foreign = trusted.clone(): the peer holds a copy of the local chain.
ForeignClone ==
    /\ pc = "idle"
    /\ foreign # blocks
    /\ foreign' = blocks
    /\ NoCall
    /\ UNCHANGED <<proof_of_work_size, blocks>>
    /\ UNCHANGED beyond_chain

\* foreign.add_data(data): the peer extends its own chain.
ForeignAdd ==
    /\ pc = "idle"
    /\ Len(foreign) < MaxBlocks
    /\ \E data \in DataValues, ts \in Clock, elapsed \in LocalElapsed :
         \E nonce \in Nonces(NewPayload(foreign, data, ts), proof_of_work_size) :
            foreign' = add_data(foreign, proof_of_work_size, data, ts, elapsed, nonce)
    /\ NoCall
    /\ UNCHANGED <<proof_of_work_size, blocks>>
    /\ UNCHANGED beyond_chain

\* blocks.reconcile(foreign_blocks).
Reconcile ==
    /\ pc = "idle"
    /\ \E foreign_blocks \in ForeignSlices(foreign, blocks) :
         LET r == reconcile(blocks, proof_of_work_size, foreign_blocks)
         IN  /\ Len(r.blocks) <= MaxBlocks
             /\ blocks' = r.blocks
             /\ result' = r.result
             /\ arg' = foreign_blocks
             /\ pc' = After(r.result, "returned")
    /\ before' = blocks
    /\ first_result' = "None"
    /\ UNCHANGED <<proof_of_work_size, foreign>>
    /\ UNCHANGED beyond_chain

\* blocks.reconcile(foreign_blocks) a second time in a row, with the same slice.
ReconcileAgain ==
    /\ pc = "returned"
    /\ LET r == reconcile(blocks, proof_of_work_size, arg)
       IN  /\ blocks' = r.blocks
           /\ result' = r.result
           /\ pc' = After(r.result, "returned_again")
    /\ before' = blocks
    /\ first_result' = result
    /\ UNCHANGED <<proof_of_work_size, foreign, arg>>
    /\ UNCHANGED beyond_chain

\* The caller has looked at what reconcile returned and goes on.  The run is
\* followed further only from a local chain made of blocks add_data builds:
\* where reconcile adopted a forged nonce or computation time, it ends.
Resume ==
    /\ pc \in {"returned", "returned_again"}
    /\ OddBlocks(blocks, proof_of_work_size) = {}
    /\ pc' = "idle"
    /\ arg' = <<>>
    /\ before' = <<>>
    /\ result' = "None"
    /\ first_result' = "None"
    /\ UNCHANGED <<proof_of_work_size, blocks, foreign>>
    /\ UNCHANGED beyond_chain

Next ==
    \/ AddData
    \/ ForeignClone
    \/ ForeignAdd
    \/ Reconcile
    \/ ReconcileAgain
    \/ Resume

Spec == Init /\ [][Next]_vars

\* ------------------------------------------------- actions of the store

\* chain_store.add(data).
Add ==
    /\ Len(chain) < MaxBlocks
    /\ \E data \in DataValues, ts \in Clock, elapsed \in LocalElapsed :
         \E nonce \in Nonces(NewPayload(chain, data, ts), proof_of_work_size) :
            chain' = add_data(chain, proof_of_work_size, data, ts, elapsed, nonce)
    /\ unpersisted_block_count' = unpersisted_block_count + 1
    /\ persisted' = "None"
    /\ new_chain_store' = NotOpened
    /\ UNCHANGED <<proof_of_work_size, beyond_store, prefix_dirs, chunk_files,
                   head_file, faulted, marks, persisted_chain, persist_before,
                   app_vars, dir_vars>>

\* FsChainStore::persist on the chain store, whoever calls it, the file
\* system answering with one of faults.
PersistWith(faults) ==
    /\ \E fault \in faults :
         LET r == persist(chain, Disk(prefix_dirs, chunk_files, head_file),
                          unpersisted_block_count, fault)
         IN  /\ prefix_dirs' = r.disk.prefix_dirs
             /\ chunk_files' = r.disk.chunk_files
             /\ head_file' = r.disk.head_file
             /\ unpersisted_block_count' = r.count
             /\ persisted' = r.result
             /\ faulted' = (faulted \/ r.result # "Ok")
             /\ marks' = IF r.result = "Ok" /\ Len(chain) > Len(persisted_chain)
                          THEN marks \cup {Len(chain)} ELSE marks
             /\ persisted_chain' = IF r.result = "Ok" THEN chain ELSE persisted_chain
    /\ new_chain_store' = NotOpened
    /\ UNCHANGED <<proof_of_work_size, beyond_store, chain>>

\* persist on a file system that may fail at any step.
PersistChains == PersistWith(Faults)

\* chain_store.persist().
Persist ==
    /\ PersistChains
    /\ persist_before' = persisted
    /\ UNCHANGED <<app_vars, dir_vars>>

\* FsChainStore::try_new(path, head_ref) on the same directory, then
\* new_chain_store.load_all_chains().
Reopen ==
    /\ ~new_chain_store.opened
    /\ new_chain_store' =
         Opened(load_all_chains(<<>>, Disk(prefix_dirs, chunk_files, head_file)))
    /\ UNCHANGED <<proof_of_work_size, beyond_store, chain, unpersisted_block_count,
                   prefix_dirs, chunk_files, head_file, persisted, faulted,
                   marks, persisted_chain, persist_before, app_vars, dir_vars>>

NextStore ==
    \/ Add
    \/ Persist
    \/ Reopen

SpecStore == Init /\ [][NextStore]_vars

\* ------------------------------------------------- actions of the Store

\* store.dispatch(action): reduce, then chains.add(action).
Dispatch ==
    /\ Len(chain) < MaxActions
    /\ \E d \in ActionValues, ts \in Clock, elapsed \in LocalElapsed :
         \E nonce \in Nonces(NewPayload(chain, d, ts), proof_of_work_size) :
            /\ state' = reduce(state, ActionOf(d))
            /\ chain' = add_data(chain, proof_of_work_size, d, ts, elapsed, nonce)
            /\ dispatched' = [called |-> TRUE, action |-> d, state |-> state,
                              chain |-> chain]
    /\ unpersisted_block_count' = unpersisted_block_count + 1
    /\ persisted' = "None"
    /\ store2' = NoStore2
    /\ UNCHANGED <<proof_of_work_size, beyond_store, prefix_dirs, chunk_files,
                   head_file, faulted, marks, persisted_chain, persist_before,
                   new_chain_store,
                   dir_vars>>

\* store.chains.persist().
StorePersist ==
    /\ PersistChains
    /\ store2' = NoStore2
    /\ UNCHANGED <<state, dispatched, dir_vars, persist_before>>

\* FsChainStore::try_new on the same directory and head ref, then
\* Store::try_new on it; the files are as persist left them, or one block of
\* a chunk file was changed in between.
OpenStore2 ==
    /\ ~store2.opened
    /\ LET disk == Disk(prefix_dirs, chunk_files, head_file)
       IN  \E found \in {disk} \cup EditedDisks(disk, chain) :
              store2' = Store_try_new(found, found # disk)
    /\ UNCHANGED <<proof_of_work_size, beyond_store, store_vars, state, dispatched,
                   dir_vars>>

NextApp ==
    \/ Dispatch
    \/ StorePersist
    \/ OpenStore2

SpecApp == Init /\ [][NextApp]_vars

\* ------------------------------------------------- the hash hex codec

\* Any Hash is encoded, any string decoded.
InitCodec ==
    /\ proof_of_work_size = 0
    /\ InitBlockChain
    /\ InitFsChainStore
    /\ InitNoName
    /\ InitStore
    /\ InitNoView
    /\ InitDir
    /\ InitClocks
    /\ InitScan
    /\ codec \in {FromHash(h) : h \in HashArrays} \cup {FromText(t) : t \in Texts}

beyond_codec == <<proof_of_work_size, chain_vars, store_vars, app_vars, head_ref_vars,
                  view_vars, dir_vars, clock_vars, scan_vars>>

\* String::from(&hash).
Encode ==
    /\ codec.start = "hash"
    /\ codec.step = 0
    /\ codec' = [codec EXCEPT !.step = 1, !.first = OkText(String_from(codec.hash))]
    /\ UNCHANGED beyond_codec

\* Hash::try_from on the string String::from made.
DecodeBack ==
    /\ codec.start = "hash"
    /\ codec.step = 1
    /\ codec' = [codec EXCEPT !.step = 2, !.second = Hash_try_from(codec.first.text)]
    /\ UNCHANGED beyond_codec

\* Hash::try_from(text).
Decode ==
    /\ codec.start = "text"
    /\ codec.step = 0
    /\ codec' = [codec EXCEPT !.step = 1, !.first = Hash_try_from(codec.text)]
    /\ UNCHANGED beyond_codec

\* String::from on the Hash that Hash::try_from returned.
EncodeBack ==
    /\ codec.start = "text"
    /\ codec.step = 1
    /\ codec.first.result = "Ok"
    /\ codec' = [codec EXCEPT !.step = 2, !.second = OkText(String_from(codec.first.hash))]
    /\ UNCHANGED beyond_codec

NextCodec ==
    \/ Encode
    \/ DecodeBack
    \/ Decode
    \/ EncodeBack

SpecCodec == InitCodec /\ [][NextCodec]_vars

\* ------------------------------------------------- State and its selector

InitView ==
    /\ proof_of_work_size \in PowSizes
    /\ InitBlockChain
    /\ InitFsChainStore
    /\ InitNoName
    /\ InitStore
    /\ InitNoCodec
    /\ InitNoView
    /\ InitDir
    /\ InitClocks
    /\ InitScan

beyond_view == <<proof_of_work_size, chain_vars, store_vars, app_vars, head_ref_vars,
                 codec_vars, dir_vars, clock_vars, scan_vars>>

\* state = state.reduce(&action).
Reduce ==
    /\ heap < MaxAllocs
    /\ \E d \in ActionValues :
         LET new == reduce(rc_state, ActionAt(d, heap))
             allocated == new.my_garden # <<>> /\ new.my_garden[1].ptr = heap
         IN  /\ rc_state' = new
             /\ heap' = IF allocated THEN heap + 1 ELSE heap
             /\ reduced' = [called |-> TRUE, action |-> d, state |-> rc_state,
                            first_plot |->
                                IF reduced.first_plot = <<>> /\ ActionOf(d).kind = "CreatePlot"
                                THEN Some(ActionOf(d).value)
                                ELSE reduced.first_plot]
             /\ since_call' = [reduces |-> TRUE,
                               changed |-> \/ since_call.changed
                                           \/ PlotOf(new.my_garden) # PlotOf(rc_state.my_garden)]
    /\ UNCHANGED <<test_states, selector_cache, selector_calls, beyond_view>>

\* get_drawable_garden(Rc::from(state)).
GetDrawableGarden ==
    /\ heap < MaxAllocs
    /\ LET r == get_drawable_garden(selector_cache.get_drawable_garden, rc_state, heap)
       IN  /\ selector_cache' = [selector_cache EXCEPT !.get_drawable_garden = r.cache]
           /\ heap' = IF r.ran THEN heap + 1 ELSE heap
           /\ selector_calls' =
                 [selector_calls EXCEPT !.get_drawable_garden =
                     Last2(@, [args |-> <<get_my_garden(rc_state)>>, result |-> r.result,
                               ran |-> r.ran, panicked |-> r.panicked,
                               since |-> since_call])]
    /\ since_call' = NoneSince
    /\ UNCHANGED <<rc_state, reduced, test_states, beyond_view>>

NextView ==
    \/ Reduce
    \/ GetDrawableGarden

SpecView == InitView /\ [][NextView]_vars

\* ------------------------------------------------- the selector of the test

\* The Rc<Position> values at hand: those of the states held, and new ones.
PositionsAt(addr) ==
    {test_states[i].position : i \in 1..Len(test_states)}
        \cup {Rc_new(addr, v) : v \in Positions}

\* The Rc<Size> values at hand: those of the states held, and new ones.
SizesAt(addr) ==
    {test_states[i].size : i \in 1..Len(test_states)}
        \cup {Rc_new(addr, v) : v \in Sizes}

\* Rc::from(TestState { position, size }), each member a new Rc or the clone of
\* a member of a state held.
NewTestState ==
    /\ Len(test_states) < MaxStates
    /\ heap + 3 <= MaxAllocs
    /\ \E position \in PositionsAt(heap) :
         LET after_position == IF position.ptr = heap THEN heap + 1 ELSE heap
         IN  \E size \in SizesAt(after_position) :
                LET after_size == IF size.ptr = after_position
                                  THEN after_position + 1 ELSE after_position
                IN  /\ test_states' = Append(test_states,
                                             TestState(after_size, position, size))
                    /\ heap' = after_size + 1
    /\ UNCHANGED <<rc_state, reduced, since_call, selector_cache, selector_calls,
                   beyond_view>>

\* Rc::from((*state).clone()).
CloneTestState ==
    /\ Len(test_states) < MaxStates
    /\ heap < MaxAllocs
    /\ \E i \in 1..Len(test_states) :
         test_states' = Append(test_states,
                               TestState(heap, test_states[i].position, test_states[i].size))
    /\ heap' = heap + 1
    /\ UNCHANGED <<rc_state, reduced, since_call, selector_cache, selector_calls,
                   beyond_view>>

\* get_bbox(state.clone()).
GetBBox ==
    /\ heap < MaxAllocs
    /\ \E i \in 1..Len(test_states) :
         LET st == test_states[i]
             r == get_bbox(selector_cache.get_bbox, st, heap)
         IN  /\ selector_cache' = [selector_cache EXCEPT !.get_bbox = r.cache]
             /\ heap' = IF r.ran THEN heap + 1 ELSE heap
             /\ selector_calls' =
                   [selector_calls EXCEPT !.get_bbox =
                       Last2(@, [state |-> st.ptr,
                                 args |-> <<get_position(st), get_size(st)>>,
                                 result |-> r.result, ran |-> r.ran,
                                 panicked |-> r.panicked])]
    /\ UNCHANGED <<rc_state, reduced, since_call, test_states, beyond_view>>

NextSelector ==
    \/ NewTestState
    \/ CloneTestState
    \/ GetBBox

SpecSelector == InitView /\ [][NextSelector]_vars

\* ------------------------------------ selectors over copyable values

\* The values of a selector that returns a Position, and of one that returns
\* an Option<Position>, as player_position of the State is.
CopyValues(type) ==
    IF type = "Copy" THEN Positions ELSE {<<>>} \cup {Some(v) : v \in Positions}

\* A selector that the macro writes for one input selector of a copyable type:
\* its caches are selector_cache[type], its contents wrap the value.
GetOver(type) ==
    /\ heap < MaxAllocs
    /\ \E v \in CopyValues(type) :
         LET cache == selector_cache[type]
             r == selector(<<type>>, cache, <<v>>, [of |-> v], heap)
         IN  /\ selector_cache' = [selector_cache EXCEPT ![type] = r.cache]
             /\ heap' = IF r.ran THEN heap + 1 ELSE heap
             /\ selector_calls' =
                   [selector_calls EXCEPT ![type] =
                       Last2(@, [args |-> <<v>>, cached |-> cache,
                                 result |-> r.result, ran |-> r.ran,
                                 panicked |-> r.panicked])]
    /\ UNCHANGED <<rc_state, reduced, since_call, test_states, beyond_view>>

\* The input selector returns a T: Copy.
GetOverCopy == LET type == "Copy" IN GetOver(type)

\* The input selector returns an Option<T> with T: Copy.
GetOverOptionCopy == LET type == "OptionCopy" IN GetOver(type)

NextCopyable ==
    \/ GetOverCopy
    \/ GetOverOptionCopy

SpecCopyable == InitView /\ [][NextCopyable]_vars

\* ------------------------------ selectors while the test drops its values

\* Most calls of get_bbox the test makes, and most Rc values allocated in a
\* run: those of the states, of their members and of the return values.
MaxBBoxCalls == 3
MaxCacheAllocs == 8

\* The addresses the allocator has to give to the members and the return
\* values: more than a run allocates.
Addrs == 0..MaxCacheAllocs

\* The addresses of the Rc<Position> and Rc<Size> that the states of the test
\* hold a reference to.
InputsHeld(states) ==
    {states[i].position.ptr : i \in 1..Len(states)}
        \cup {states[i].size.ptr : i \in 1..Len(states)}

\* A cache that clones nothing: it keeps the addresses without a reference.
CacheHolds_Nothing(cache) == {}

\* The addresses that the two thread-locals of a selector hold a reference
\* to: the clone of every selector value, and the clone of the return value.
CacheHolds(cache) ==
    (IF cache.args = <<>> THEN {}
     ELSE {cache.args[1][i].ptr : i \in 1..Len(cache.args[1])})
        \cup (IF cache.returns = <<>> THEN {} ELSE {cache.returns[1].ptr})

\* The addresses of the return values that the test still holds.
ResultsHeld(calls) == {calls[k].result.ptr : k \in {j \in 1..Len(calls) : calls[j].held}}

\* The address the allocator gives, as a set that is empty when none is left:
\* the lowest that no reference keeps alive.  An address is given again as
\* soon as the value at it was dropped; SpecSelector has the allocator that
\* gives no address twice.
FreeAddrs(states, cache, calls) ==
    LET free == Addrs \ (InputsHeld(states) \cup CacheHolds(cache) \cup ResultsHeld(calls))
    IN  {a \in free : \A b \in free : a <= b}

\* Rc::strong_count of a selector value: the references of the states of the
\* test and those of the arguments cache.
strong_count(states, cache, rc) ==
    Cardinality({i \in 1..Len(states) : states[i].position = rc})
        + Cardinality({i \in 1..Len(states) : states[i].size = rc})
        + (IF cache.args = <<>> THEN 0
           ELSE Cardinality({i \in 1..Len(cache.args[1]) : cache.args[1][i] = rc}))

\* let state = Rc::from(TestState { position, size }), each member a new Rc at
\* an address that is free, which may be one that a dropped value had, or the
\* clone of a member of a state held.  The Rc<TestState> itself, which nothing
\* compares, is given no address.
HoldState ==
    /\ LET cache == selector_cache.get_bbox
           calls == selector_calls.get_bbox
           positions == {test_states[i].position : i \in 1..Len(test_states)}
                            \cup {Rc_new(a, v) : a \in FreeAddrs(test_states, cache, calls),
                                                 v \in Positions}
       IN  \E position \in positions :
              LET held == Append(test_states, TestState(0, position, position))
                  sizes == {test_states[i].size : i \in 1..Len(test_states)}
                               \cup {Rc_new(a, v) : a \in FreeAddrs(held, cache, calls),
                                                    v \in Sizes}
              IN  \E size \in sizes :
                     /\ test_states' = Append(test_states,
                                              TestState(0, position, size))
                     /\ heap' = heap + 1 + Cardinality({position.ptr, size.ptr}
                                                          \ InputsHeld(test_states))
                     /\ heap' <= MaxCacheAllocs
    /\ UNCHANGED <<rc_state, reduced, since_call, selector_cache, selector_calls,
                   beyond_view>>

\* A state of the test goes out of scope.
DropState ==
    /\ \E i \in 1..Len(test_states) :
         test_states' = SubSeq(test_states, 1, i - 1)
                            \o SubSeq(test_states, i + 1, Len(test_states))
    /\ UNCHANGED <<heap, rc_state, reduced, since_call, selector_cache, selector_calls,
                   beyond_view>>

\* let bbox = get_bbox(state.clone()).  When the contents run, the arguments
\* cache has let go of the values it replaced and the returns cache still
\* holds the earlier return value: Rc::from gets an address that is free then.
\* The test keeps every return value, as test_state does to its end.
HoldBBox ==
    /\ Len(selector_calls.get_bbox) < MaxBBoxCalls
    /\ heap < MaxCacheAllocs
    /\ \E i \in 1..Len(test_states) :
         LET st == test_states[i]
             cache == selector_cache.get_bbox
             args == <<get_position(st), get_size(st)>>
             calls == selector_calls.get_bbox
             replaced == [args |-> Some(args), returns |-> cache.returns]
             free == FreeAddrs(test_states, replaced, calls)
         IN  \E addr \in (IF cache_matches(<<"Rc", "Rc">>, cache, args)
                           THEN {0} ELSE free) :
                LET r == get_bbox(cache, st, addr)
                IN  /\ selector_cache' = [selector_cache EXCEPT !.get_bbox = r.cache]
                    /\ heap' = IF r.ran THEN heap + 1 ELSE heap
                    /\ selector_calls' =
                          [selector_calls EXCEPT !.get_bbox =
                              Append(@, [state |-> st.ptr, args |-> args,
                                         result |-> r.result, ran |-> r.ran,
                                         panicked |-> r.panicked, held |-> TRUE])]
    /\ UNCHANGED <<rc_state, reduced, since_call, test_states, beyond_view>>

NextCache ==
    \/ HoldState
    \/ DropState
    \/ HoldBBox

SpecCache == InitView /\ [][NextCache]_vars

\* ------------------------------------------------- actions on a directory

\* chain_store.persist() on a file system that works, the chain that the head
\* file names noted before.
DirPersist ==
    /\ PersistWith({"none"})
    /\ head_before' = load_all_chains(<<>>, Disk(prefix_dirs, chunk_files, head_file))
    /\ UNCHANGED <<dir_calls, loaded, tampered, app_vars, persist_before>>

\* chain_store.add(data).
DirAdd ==
    /\ dir_calls < MaxCalls
    /\ Len(chain) < MaxBlocks
    /\ \E data \in DataValues, ts \in Clock, elapsed \in LocalElapsed :
         \E nonce \in Nonces(NewPayload(chain, data, ts), proof_of_work_size) :
            chain' = add_data(chain, proof_of_work_size, data, ts, elapsed, nonce)
    /\ unpersisted_block_count' = unpersisted_block_count + 1
    /\ dir_calls' = dir_calls + 1
    /\ persisted' = "None"
    /\ new_chain_store' = NotOpened
    /\ UNCHANGED <<proof_of_work_size, beyond_store, prefix_dirs, chunk_files,
                   head_file, faulted, marks, persisted_chain, persist_before,
                   app_vars,
                   loaded, head_before, tampered>>

\* The open store is dropped and FsChainStore::try_new(path, head_ref) opens
\* the next one on the directory as it finds it: its chain is empty, loading
\* is lazy.
OpenOn(found) ==
    /\ dir_calls < MaxCalls
    /\ dir_calls' = dir_calls + 1
    /\ chain' = <<>>
    /\ unpersisted_block_count' = 0
    /\ persisted' = "None"
    /\ new_chain_store' = NotOpened
    /\ loaded' = NoLoad
    /\ chunk_files' = found.chunk_files
    /\ tampered' = (tampered \/ found.chunk_files # chunk_files)
    /\ UNCHANGED <<proof_of_work_size, beyond_store, prefix_dirs, head_file,
                   faulted, marks, persisted_chain, persist_before,
                   app_vars, head_before>>

\* The next store opens the directory as the store before left it, or after
\* someone else removed a chunk file.
OpenAgain ==
    LET disk == Disk(prefix_dirs, chunk_files, head_file)
    IN  \E found \in {disk} \cup RemovedDisks(disk) : OpenOn(found)

\* The next store opens the directory after someone else changed one block of
\* one chunk file.
OpenEdited ==
    LET disk == Disk(prefix_dirs, chunk_files, head_file)
    IN  \E found \in EditedDisks(disk, chain) : OpenOn(found)

\* chain_store.load_next_parent_chain().
LoadNext ==
    /\ LET disk == Disk(prefix_dirs, chunk_files, head_file)
           r == load_next_parent_chain(chain, disk)
       IN  /\ Len(r.blocks) <= MaxLoaded
           /\ chain' = r.blocks
           /\ loaded' = LoadOf("next", chain, disk, r)
    /\ persisted' = "None"
    /\ new_chain_store' = NotOpened
    /\ UNCHANGED <<proof_of_work_size, beyond_store, unpersisted_block_count, prefix_dirs,
                   chunk_files, head_file, faulted, marks, persisted_chain, persist_before,
                   app_vars,
                   dir_calls, head_before, tampered>>

\* chain_store.load_all_chains(), when it returns.
LoadAll ==
    /\ LET disk == Disk(prefix_dirs, chunk_files, head_file)
           r == load_all_chains(chain, disk)
       IN  /\ r.result # "Diverges"
           /\ chain' = r.blocks
           /\ loaded' = LoadOf("all", chain, disk, r)
    /\ persisted' = "None"
    /\ new_chain_store' = NotOpened
    /\ UNCHANGED <<proof_of_work_size, beyond_store, unpersisted_block_count, prefix_dirs,
                   chunk_files, head_file, faulted, marks, persisted_chain, persist_before,
                   app_vars,
                   dir_calls, head_before, tampered>>

NextDir ==
    \/ DirAdd
    \/ DirPersist
    \/ OpenAgain
    \/ LoadNext
    \/ LoadAll

\* The first store is open on an empty directory.
InitOpened ==
    /\ proof_of_work_size = 0
    /\ InitBlockChain
    /\ InitFsChainStore
    /\ InitNoName
    /\ InitStore
    /\ InitNoCodec
    /\ InitNoView
    /\ InitDir
    /\ InitClocks
    /\ InitScan

SpecDir == InitOpened /\ [][NextDir]_vars

NextDirEdited ==
    \/ NextDir
    \/ OpenEdited

SpecDirEdited == InitOpened /\ [][NextDirEdited]_vars

\* ------------------------------------------------- chains and their clocks

\* A second passes on one machine's clock; the clocks are not synchronized.
Tick ==
    /\ pc = "idle"
    /\ \E machine \in {"local", "peer"} :
         /\ now[machine] < MaxTime
         /\ now' = [now EXCEPT ![machine] = @ + 1]
    /\ UNCHANGED <<proof_of_work_size, chain_vars, store_vars, app_vars, head_ref_vars,
                   codec_vars, view_vars, dir_vars, scan_vars>>

\* blocks.add_data(data) on the local chain, at the local time.
AddDataNow ==
    /\ pc = "idle"
    /\ Len(blocks) < MaxBlocks
    /\ \E data \in DataValues, elapsed \in LocalElapsed :
         \E nonce \in Nonces(NewPayload(blocks, data, now.local), proof_of_work_size) :
            blocks' = add_data(blocks, proof_of_work_size, data, now.local, elapsed, nonce)
    /\ NoCall
    /\ UNCHANGED <<proof_of_work_size, foreign>>
    /\ UNCHANGED beyond_chain

\* foreign.add_data(data): the peer extends its chain, at the peer's time.
ForeignAddNow ==
    /\ pc = "idle"
    /\ Len(foreign) < MaxBlocks
    /\ \E data \in DataValues, elapsed \in LocalElapsed :
         \E nonce \in Nonces(NewPayload(foreign, data, now.peer), proof_of_work_size) :
            foreign' = add_data(foreign, proof_of_work_size, data, now.peer, elapsed, nonce)
    /\ NoCall
    /\ UNCHANGED <<proof_of_work_size, blocks>>
    /\ UNCHANGED beyond_chain

\* blocks.reconcile(foreign_blocks) on blocks as the peer built them.
ReconcileBuilt ==
    /\ pc = "idle"
    /\ \E from \in 1..(Len(foreign) + 1) :
         LET foreign_blocks == SubSeq(foreign, from, Len(foreign))
             r == reconcile(blocks, proof_of_work_size, foreign_blocks)
         IN  /\ blocks' = r.blocks
             /\ result' = r.result
             /\ arg' = foreign_blocks
             /\ pc' = After(r.result, "returned")
    /\ before' = blocks
    /\ first_result' = "None"
    /\ UNCHANGED <<proof_of_work_size, foreign>>
    /\ UNCHANGED beyond_chain

NextClock ==
    \/ Tick
    \/ AddDataNow
    \/ ForeignClone
    \/ ForeignAddNow
    \/ ReconcileBuilt
    \/ Resume

SpecClock == InitOpened /\ [][NextClock]_vars

\* ---------------------------------------------- actions of the scan

beyond_scan == <<proof_of_work_size, chain_vars, store_vars, app_vars, head_ref_vars,
                 codec_vars, view_vars, dir_vars, clock_vars>>

\* persist has written the chunk file of a tip.
PutChunk ==
    /\ refreshed = "None"
    /\ Cardinality(chains_dir) < MaxEntries
    /\ \E h \in ScanHashes : chains_dir' = chains_dir \cup {ChunkEntry(h)}
    /\ UNCHANGED <<chain_hashes, refreshed, beyond_scan>>

\* Someone else has put a file under chains/.
PutForeign ==
    /\ refreshed = "None"
    /\ Cardinality(chains_dir) < MaxEntries
    /\ \E h \in ScanHashes : \E e \in ForeignEntries(h) :
         chains_dir' = chains_dir \cup {e}
    /\ UNCHANGED <<chain_hashes, refreshed, beyond_scan>>

\* FsChainStore::try_new on the directory: refresh_chains on a chain store
\* whose chain_hashes is empty.
TryNew ==
    /\ refreshed = "None"
    /\ LET r == refresh_chains(chains_dir)
       IN  /\ refreshed' = r.result
           /\ chain_hashes' = r.chain_hashes
    /\ UNCHANGED <<chains_dir, beyond_scan>>

NextScan ==
    \/ PutChunk
    \/ PutForeign
    \/ TryNew

SpecScan == InitOpened /\ [][NextScan]_vars

\* ------------------------------------------------- HeadRef::try_from

\* Any name may be asked for.
InitHeadRef ==
    /\ proof_of_work_size = 0
    /\ InitBlockChain
    /\ InitFsChainStore
    /\ name \in Names
    /\ head_ref = NotTried
    /\ InitStore
    /\ InitNoCodec
    /\ InitNoView
    /\ InitDir
    /\ InitClocks
    /\ InitScan

\* HeadRef::try_from(name).
TryFrom ==
    /\ ~head_ref.tried
    /\ head_ref' = try_from(name)
    /\ UNCHANGED <<proof_of_work_size, chain_vars, store_vars, name, app_vars,
                   codec_vars, view_vars, dir_vars, clock_vars, scan_vars>>

NextHeadRef == TryFrom

SpecHeadRef == InitHeadRef /\ [][NextHeadRef]_vars

\* ------------------------------------------------ what the claims speak of

\* arg, before and result describe a reconcile call.
Called == pc # "idle"

\* Every non-first block names the block before it.
Linked(bl) == \A i \in 2..Len(bl) : bl[i].payload.parent = bl[i - 1].hash

\* The hashes of the blocks of a chain.
LocalHashes(bl) == {bl[i].hash : i \in 1..Len(bl)}

\* A slice without its ROOT-parented first block.
Rest(fs) == IF fs # <<>> /\ fs[1].payload.parent = ROOT THEN Tail(fs) ELSE fs

\* The first remaining foreign block names a local block.
ParentFound(bl, fs) ==
    /\ Rest(fs) # <<>>
    /\ Rest(fs)[1].payload.parent \in LocalHashes(bl)

\* The number of local blocks up to and including that block.
ParentPos(bl, fs) ==
    CHOOSE i \in 1..Len(bl) :
        /\ bl[i].hash = Rest(fs)[1].payload.parent
        /\ \A j \in (i + 1)..Len(bl) : bl[j].hash # bl[i].hash

\* The number of foreign blocks equal, one by one, to the local blocks after it.
SharedLen(bl, fs) ==
    LET p == ParentPos(bl, fs)
        same(k) == \A j \in 1..k : p + j <= Len(bl) /\ bl[p + j] = Rest(fs)[j]
    IN  CHOOSE k \in 0..Len(Rest(fs)) :
            same(k) /\ (k = Len(Rest(fs)) \/ ~same(k + 1))

\* The local blocks up to the last shared one, and both tails after it.
Kept(bl, fs) == SubSeq(bl, 1, ParentPos(bl, fs) + SharedLen(bl, fs))
LocalTail(bl, fs) == SubSeq(bl, ParentPos(bl, fs) + SharedLen(bl, fs) + 1, Len(bl))
ForeignTail(bl, fs) == SubSeq(Rest(fs), SharedLen(bl, fs) + 1, Len(Rest(fs)))

\* Block j of a tail placed after the block with hash h names the block before it.
NamesParent(tail, h, j) ==
    tail[j].payload.parent = (IF j = 1 THEN h ELSE tail[j - 1].hash)

\* Its hash field is the hash of its payload.
HonestHash(b) == b.hash = PayloadHash(b.payload)

LinkedAndHashed(tail, h) ==
    \A j \in 1..Len(tail) : NamesParent(tail, h, j) /\ HonestHash(tail[j])

\* Every hash starts with size zero bytes.
LeadingZeros(tail, size) ==
    \A j \in 1..Len(tail) : \A i \in 0..(size - 1) : HashByte(tail[j].hash, i) = 0

\* The longest common prefix of two chains.
CommonLen(a, b) ==
    CHOOSE n \in 0..Len(a) :
        /\ n <= Len(b)
        /\ SubSeq(a, 1, n) = SubSeq(b, 1, n)
        /\ (n = Len(a) \/ n = Len(b) \/ a[n + 1] # b[n + 1])

\* ------------------------------------------------------------- the claims

\* C2: in every state reached by add_data and reconcile calls, whatever the
\* foreign slice and whatever reconcile returned, every non-first block of the
\* local chain names the hash of the block before it.
C2_ParentLinks == Linked(blocks)

\* A reconcile returned Ok and left a chain that ends with adopted blocks.
C2_Witness ==
    /\ pc = "returned"
    /\ result = "Ok"
    /\ blocks # before
    /\ Len(blocks) >= 2

C4_ShorterForeign ==
    (/\ Called
     /\ ParentFound(before, arg)
     /\ Len(LocalTail(before, arg)) > Len(ForeignTail(before, arg)))
    => result = "ShorterForeignBlocks"

\* C5: reconcile returns Ok only when every foreign block after the shared
\* prefix names the block placed before it and carries the hash of its payload;
\* otherwise the chain is left as it was, and the result is MalformedBlocks when
\* the foreign tail is not shorter than the local one.
C5_BadBlock ==
    LET tail == ForeignTail(before, arg)
        h == Kept(before, arg)[Len(Kept(before, arg))].hash
    IN  (/\ Called
         /\ ParentFound(before, arg)
         /\ ~LinkedAndHashed(tail, h))
        => /\ result # "Ok"
           /\ blocks = before
           /\ Len(tail) >= Len(LocalTail(before, arg)) => result = "MalformedBlocks"

\* C5: no block of the local chain carries a hash that is not its payload's.
C5_NeverAdopted ==
    /\ C5_BadBlock
    /\ \A i \in 1..Len(blocks) : HonestHash(blocks[i])

\* A foreign tail long enough to win held a block with a forged hash field.
C5_Witness ==
    /\ pc = "returned"
    /\ ParentFound(before, arg)
    /\ Len(ForeignTail(before, arg)) > Len(LocalTail(before, arg))
    /\ \E j \in 1..Len(ForeignTail(before, arg)) : ~HonestHash(ForeignTail(before, arg)[j])
    /\ result = "MalformedBlocks"

\* C6: reconcile returns NoMatchingParent exactly when the slice, without a
\* ROOT-parented first block, has a first block and that block's parent is the
\* hash of no local block.
C6_NoMatchingParent ==
    Called =>
        (result = "NoMatchingParent"
            <=> (Rest(arg) # <<>> /\ Rest(arg)[1].payload.parent \notin LocalHashes(before)))

\* A slice cut after the fork names a parent the local chain does not hold.
C6_Witness ==
    /\ pc = "returned"
    /\ before # <<>>
    /\ Len(arg) >= 1
    /\ arg[1].payload.parent # ROOT
    /\ result = "NoMatchingParent"

\* C7: whenever reconcile returns an error the local chain is the chain it was
\* before the call.
C7_ErrorKeepsChain == (Called /\ result \in Errors) => blocks = before

\* MalformedBlocks was returned on a chain with local blocks to lose.
C7_Witness ==
    /\ pc = "returned"
    /\ result = "MalformedBlocks"
    /\ Len(before) >= 2
    /\ Len(LocalTail(before, arg)) >= 1

\* C8: a second reconcile with the same slice, right after the first, leaves
\* the chain the first call left, and returns Ok when the first did.
C8_Idempotent ==
    first_result # "None" =>
        /\ result # "Panic"
        /\ blocks = before
        /\ first_result = "Ok" => result = "Ok"

\* The first call replaced local blocks and the second call has returned.
C8_Witness ==
    /\ pc = "returned_again"
    /\ first_result = "Ok"
    /\ Len(arg) >= 2
    /\ Len(blocks) >= 2
    /\ SubSeq(blocks, Len(blocks) - 1, Len(blocks)) = SubSeq(arg, Len(arg) - 1, Len(arg))

\* C9: reconcile returns Ok or one of the three errors for every local chain
\* and every foreign slice; it never aborts.
C9_NeverAborts == pc # "aborted" /\ result # "Panic"

Fields(bl) ==
    [i \in 1..Len(bl) |->
        <<bl[i].hash, bl[i].payload.parent, bl[i].payload.timestamp, bl[i].payload.data>>]

\* C1: when the last call on the first store is a persist that returned Ok, a
\* second store opened on the same root path and head ref loads, with
\* load_all_chains, a chain equal block for block (hash, parent, timestamp,
\* data, root-to-tip order) to the first store's chain.
C1_RoundTrip ==
    (new_chain_store.opened /\ persisted = "Ok") =>
        /\ new_chain_store.loaded = "Ok"
        /\ Fields(new_chain_store.chain) = Fields(chain)

\* The peer's chain is a non-empty proper prefix of the local chain, and the
\* slice is the peer's blocks from index Len(foreign) onward: no block.
PrefixPeer ==
    /\ Called
    /\ foreign # <<>>
    /\ Len(before) > Len(foreign)
    /\ foreign = SubSeq(before, 1, Len(foreign))
    /\ arg = SubSeq(foreign, Len(foreign) + 1, Len(foreign))

\* C11 as stated: with trusted = [a, .., losing] and foreign = trusted without
\* its last blocks, reconcile on the foreign blocks from index Len(foreign)
\* onward returns ShorterForeignBlocks and trusted is unchanged.
C11_AsStated == PrefixPeer => (result = "ShorterForeignBlocks" /\ blocks = before)

\* C11, amended: that slice is empty, reconcile returns Ok and trusted is
\* unchanged.
C11_PrefixPeerOk == PrefixPeer => (result = "Ok" /\ blocks = before)

\* trusted = [a, b, losing], foreign = [a, b], reconcile(&foreign.blocks[2..]).
C11_Witness ==
    /\ pc = "returned"
    /\ PrefixPeer
    /\ Len(foreign) = 2
    /\ Len(before) = 3

\* trusted and foreign share their first blocks, trusted has one block or more
\* after them and foreign one more than trusted, differing from the first on.
Reorganization ==
    /\ Called
    /\ CommonLen(before, foreign) >= 1
    /\ Len(before) > CommonLen(before, foreign)
    /\ Len(foreign) = Len(before) + 1

\* The foreign blocks from index n (0-based) onward.
ForeignFrom(n) == SubSeq(foreign, n + 1, Len(foreign))

\* C12 as stated: with trusted = [a, .., d, ..] and foreign = [a, .., D, .., F],
\* reconcile on the foreign blocks from the first differing one onward fails
\* with NoMatchingParent and leaves trusted as it was.
C12_AsStated ==
    (Reorganization /\ arg = ForeignFrom(CommonLen(before, foreign)))
    => (result = "NoMatchingParent" /\ blocks = before)

\* C12, amended: that slice starts with a block whose parent is the last shared
\* block, so reconcile returns Ok and trusted becomes foreign; it is the slice
\* that starts one block later which fails with NoMatchingParent and leaves
\* trusted as it was.
C12_Reorganization ==
    /\ (Reorganization /\ arg = ForeignFrom(CommonLen(before, foreign)))
       => (result = "Ok" /\ blocks = foreign)
    /\ (Reorganization /\ arg = ForeignFrom(CommonLen(before, foreign) + 1))
       => (result = "NoMatchingParent" /\ blocks = before)

\* trusted = [a, d], foreign = [a, D, E], reconcile(&foreign.blocks[1..]).
C12_Witness ==
    /\ pc = "returned"
    /\ Reorganization
    /\ arg = ForeignFrom(CommonLen(before, foreign))
    /\ Len(before) = 2
    /\ blocks = foreign

\* C13: reconcile with an empty foreign slice returns Ok and leaves the local
\* chain as it was, whatever the local chain, the empty one included.
C13_EmptySlice == (Called /\ arg = <<>>) => (result = "Ok" /\ blocks = before)

\* An empty slice was reconciled into a chain that holds blocks.
C13_Witness ==
    /\ pc = "returned"
    /\ arg = <<>>
    /\ Len(before) >= 1
    /\ result = "Ok"

\* The alphabet [A-Za-z0-9_-].
InAlphabet(ch) == ch \in {"a", "Z", "7", "_", "-"}

\* C20: HeadRef::try_from(name) succeeds exactly when name is not empty and
\* every character of it is in [A-Za-z0-9_-].
C20_HeadRefAlphabet ==
    head_ref.tried =>
        (head_ref.ok <=> (name # <<>> /\ \A i \in 1..Len(name) : InAlphabet(name[i])))

\* The last chain length before n at which a persist with new blocks returned Ok.
MarkBefore(n) == IF \E m \in marks : m < n
                 THEN CHOOSE m \in marks : m < n /\ \A k \in marks : k < n => k <= m
                 ELSE 0

\* One chunk file per such persist, named by the tip at that persist and
\* holding the blocks added since the one before.
ChunkPerPersist ==
    [h \in {chain[m].hash : m \in marks} |->
        LET m == CHOOSE k \in marks : chain[k].hash = h
        IN  ChunkOf(SubSeq(chain, MarkBefore(m) + 1, m))]

\* C17: after a persist that returned Ok, chains/ holds exactly one chunk file
\* per persist that had new blocks to write, named by the tip hash at that
\* persist and holding the blocks added since the persist before, root to
\* tip; so no block is in two files and the chunks, in order, are the chain.
C17_OneChunkPerPersist ==
    persisted = "Ok" =>
        /\ chunk_files = ChunkPerPersist
        /\ chain # <<>> => Len(chain) \in marks

\* C18: whenever persist returns Ok on a store whose chain holds blocks, the
\* head file holds the hash of the in-memory tip.
C18_HeadNamesTip ==
    (persisted = "Ok" /\ chain # <<>>) => head_file = HeadOf(TipHash(chain))

\* C19: after a persist that returned an error (the disk is then what a crash
\* at that step leaves), the head file names the tip of the last persist that
\* returned Ok (there is none when no persist did), and a store opened on the
\* directory loads exactly the chain of that persist.
C19_HeadAtLastPersist ==
    persisted \notin {"None", "Ok"} =>
        /\ head_file = IF persisted_chain = <<>> THEN NoHead
                       ELSE HeadOf(TipHash(persisted_chain))
        /\ new_chain_store.opened =>
              /\ new_chain_store.loaded = "Ok"
              /\ new_chain_store.chain = persisted_chain

\* Every block names the block before it, ROOT before the first.
LinkedFromRoot(bl) ==
    \A i \in 1..Len(bl) :
        bl[i].payload.parent = (IF i = 1 THEN ROOT ELSE bl[i - 1].hash)

\* C14: Store::try_new succeeds exactly when every block of the fully loaded
\* chain names the block before it (ROOT before the first) and carries the hash
\* of its payload; when it fails, or the chain does not load, no Store is
\* returned.
C14_AllOrNothing ==
    store2.opened =>
        /\ store2.loaded = "Ok" =>
              (store2.ok <=> /\ LinkedFromRoot(store2.chain)
                             /\ \A i \in 1..Len(store2.chain) : HonestHash(store2.chain[i]))
        /\ store2.loaded # "Ok" => ~store2.ok

\* A chain whose first block is sound and whose second is not was refused.
C14_Witness ==
    /\ store2.opened
    /\ store2.loaded = "Ok"
    /\ Len(store2.chain) >= 2
    /\ store2.chain[1].payload.parent = ROOT
    /\ HonestHash(store2.chain[1])
    /\ ~HonestHash(store2.chain[2])
    /\ ~store2.ok

\* reduce folded over the data of blocks, root to tip, from the state st.
RECURSIVE Fold(_, _)
Fold(st, bl) ==
    IF bl = <<>> THEN st ELSE Fold(reduce(st, ActionOf(Head(bl).payload.data)), Tail(bl))

\* Only chain actions were dispatched.
OnlyChainActions == \A i \in 1..Len(chain) : IsChainAction(chain[i].payload.data)

\* C15: after chain actions were dispatched and persist returned Ok (as every
\* persist before it did), a Store opened on the same directory, as persist
\* left it, has the State of the first Store, which is reduce folded over the
\* persisted blocks from the initial State.
C15_StateRoundTrip ==
    (/\ OnlyChainActions
     /\ persisted = "Ok"
     /\ ~faulted
     /\ store2.opened
     /\ ~store2.edited) =>
        /\ store2.ok
        /\ store2.chain = chain
        /\ store2.state = state
        /\ state = Fold(State_new, chain)

\* Two chain actions were dispatched and persisted, and the second Store
\* holds the plot and the player's position they made.
C15_Witness ==
    /\ OnlyChainActions
    /\ persisted = "Ok"
    /\ ~faulted
    /\ store2.opened
    /\ ~store2.edited
    /\ Len(chain) = 2
    /\ store2.state.my_garden = Some(2)
    /\ store2.state.player_position = Some(1)

\* C16: dispatch(action) sets the state to reduce(state, action); a chain
\* action appends exactly one block that carries it, a transient action leaves
\* the chain of the chain store as it was.
C16_Dispatch ==
    dispatched.called =>
        /\ state = reduce(dispatched.state, ActionOf(dispatched.action))
        /\ IF IsChainAction(dispatched.action)
           THEN /\ Len(chain) = Len(dispatched.chain) + 1
                /\ SubSeq(chain, 1, Len(dispatched.chain)) = dispatched.chain
                /\ chain[Len(chain)].payload.data = dispatched.action
           ELSE chain = dispatched.chain

\* A string of as many lower-case hex digits as a Hash has.
LowerHex(t) ==
    /\ Len(t) = 2 * HashLen
    /\ \A i \in 1..Len(t) : \E k \in 1..16 : LowerDigits[k] = t[i]

\* A character that is a hexadecimal digit, of either case.
IsHexDigit(ch) == to_digit(ch) # None

\* C21: String::from then Hash::try_from gives back every Hash, and
\* Hash::try_from then String::from gives back every string of lower-case hex
\* digits of the length of a Hash.
C21_RoundTrip ==
    /\ (codec.start = "hash" /\ codec.step = 2) => codec.second = OkHash(codec.hash)
    /\ (codec.start = "text" /\ codec.step >= 1 /\ LowerHex(codec.text))
         => codec.first.result = "Ok"
    /\ (codec.start = "text" /\ codec.step = 2 /\ LowerHex(codec.text))
         => codec.second = OkText(codec.text)

\* A string with a digit above nine went through both conversions.
C21_Witness ==
    /\ codec.start = "text"
    /\ codec.step = 2
    /\ LowerHex(codec.text)
    /\ \E i \in 1..Len(codec.text) : codec.text[i] = "a"
    /\ \E i \in 1..Len(codec.text) : codec.text[i] = "0"

\* C22: Hash::try_from returns an error for every string that has not the
\* length of a Hash in hex, and for every string of that length that holds a
\* character that is no hexadecimal digit, a sign included.
C22_RejectsNonHex ==
    (/\ codec.start = "text"
     /\ codec.step >= 1
     /\ \/ Len(codec.text) # 2 * HashLen
        \/ \E i \in 1..Len(codec.text) : ~IsHexDigit(codec.text[i]))
    => codec.first.result = "Err"

\* C23: a string of the length of a Hash in hex that holds an upper-case digit
\* is rejected; so every string that decodes encodes back to itself.
C23_LowerCaseOnly ==
    /\ (/\ codec.start = "text"
        /\ codec.step >= 1
        /\ Len(codec.text) = 2 * HashLen
        /\ \E i \in 1..Len(codec.text) : \E k \in 1..6 : UpperDigits[k] = codec.text[i])
       => codec.first.result = "Err"
    /\ (codec.start = "text" /\ codec.step = 2) => codec.second = OkText(codec.text)

\* The addresses of the values a selector call got from its input selectors.
ArgPtrs(call) == [i \in 1..Len(call.args) |-> call.args[i].ptr]

\* C24: when every input selector returns the allocation it returned at the
\* call before, the memoized selector returns the allocation it returned then
\* and its contents do not run, whether or not the State is the same Rc.
C24_Memoized ==
    LET calls == selector_calls.get_bbox
    IN  (Len(calls) = 2 /\ ArgPtrs(calls[2]) = ArgPtrs(calls[1])) =>
            /\ ~calls[2].panicked
            /\ ~calls[2].ran
            /\ calls[2].result = calls[1].result

\* get_bbox ran its contents for a state and was then called on a clone of it.
C24_Witness ==
    LET calls == selector_calls.get_bbox
    IN  /\ Len(calls) = 2
        /\ ArgPtrs(calls[2]) = ArgPtrs(calls[1])
        /\ calls[2].state # calls[1].state
        /\ calls[1].ran

\* C25: once a CreatePlot(p) was reduced, my_garden holds p after every later
\* action, a CreatePlot(q) included.
C25_FirstPlotStays ==
    reduced.first_plot # <<>> => PlotOf(rc_state.my_garden) = reduced.first_plot

\* CreatePlot(2) was reduced on a State that held plot 1.
C25_Witness ==
    /\ reduced.called
    /\ reduced.action = 2
    /\ reduced.first_plot = Some(1)
    /\ PlotOf(rc_state.my_garden) = Some(1)

C27_MissingChunkIsError ==
    LET disk == Disk(prefix_dirs, chunk_files, head_file)
        all == load_all_chains(chain, disk)
        fresh == iter_all(disk)
    IN  /\ (loaded.call # "none" /\ loaded.missing) =>
              loaded.result \notin {"None", "Some", "Ok", "Diverges"}
        /\ all.result = "Ok" => (all.blocks = <<>> \/ is_root(all.blocks[1].payload.parent))
        /\ fresh.result = "Ok" =>
              (fresh.blocks = <<>> \/ is_root(fresh.blocks[1].payload.parent))

\* load_all_chains was called with blocks in memory whose root-most block
\* names a chunk file that was removed.
C27_Witness ==
    /\ loaded.call = "all"
    /\ loaded.missing
    /\ chain # <<>>
    /\ ~is_root(chain[1].payload.parent)
    /\ loaded.result = "FileSystem"

\* C28: every block a load of a chunk file places in the chain carries the
\* hash of its payload.
C28_LoadedBlocksHashed ==
    \A i \in 1..Len(loaded.placed) : HonestHash(loaded.placed[i])

\* The chain b is the chain a, or the chain a with blocks added at its tip.
IsPrefix(a, b) == Len(a) <= Len(b) /\ a = SubSeq(b, 1, Len(a))

\* C30: when nobody else wrote to the directory and persist returns Ok, the
\* chain the head file names has the chain it named before that persist as a
\* prefix.
C30_HistoryExtended ==
    (persisted = "Ok" /\ ~tampered /\ head_before.result = "Ok") =>
        LET after == load_all_chains(<<>>, Disk(prefix_dirs, chunk_files, head_file))
        IN  /\ after.result = "Ok"
            /\ IsPrefix(head_before.blocks, after.blocks)

\* C29: in the local chain, built by add_data and by reconcile calls that
\* returned Ok, no block has a timestamp earlier than the block before it.
C29_TimestampsNonDecreasing ==
    \A i \in 2..Len(blocks) :
        blocks[i - 1].payload.timestamp <= blocks[i].payload.timestamp

\* C31: when the local chain is empty and the foreign slice is a whole chain
\* (one block or more, the first naming ROOT, each block naming the one before
\* it and carrying the hash of its payload and the leading zero bytes),
\* reconcile returns Ok and the local chain is the foreign chain.
C31_AdoptsWholeChain ==
    (/\ Called
     /\ before = <<>>
     /\ arg # <<>>
     /\ LinkedAndHashed(arg, ROOT)
     /\ LeadingZeros(arg, proof_of_work_size))
    => (result = "Ok" /\ blocks = arg)

\* C32: persist on a chain without blocks returns Ok and makes no file; a
\* persist that follows a persist that returned Ok, nothing added in between,
\* returns Ok and leaves every file and directory as it was.
C32_PersistIdempotent ==
    [][Persist =>
        LET disk == Disk(prefix_dirs, chunk_files, head_file)
            left == Disk(prefix_dirs', chunk_files', head_file')
        IN  /\ chain = <<>> =>
                 /\ persisted' = "Ok"
                 /\ left = disk
                 /\ left = Disk({}, <<>>, NoHead)
            /\ persisted = "Ok" =>
                 /\ persisted' = "Ok"
                 /\ left = disk
    ]_vars

\* persist was called right after a persist that returned Ok on a chain with
\* blocks.
C32_Witness ==
    /\ persisted = "Ok"
    /\ persist_before = "Ok"
    /\ Len(chain) >= 2
    /\ head_file = HeadOf(TipHash(chain))

\* b is made of the last blocks of a.
IsSuffix(b, a) == Len(b) <= Len(a) /\ b = SubSeq(a, Len(a) - Len(b) + 1, Len(a))

\* C33: a load_next_parent_chain that returns a block has put the blocks of
\* one chunk file, the one the head names or the parent of the earliest block
\* in memory names, in front of the blocks in memory, in the order of the file
\* and with the earlier blocks as they were; where the blocks in memory were
\* the end of the stored chain, they still are, linked by parent and ending at
\* the tip the head names.  Where that hash is ROOT, or nothing is in memory
\* and there is no head file, it reports the end and changes nothing.
C33_PrependsOneChunk ==
    [][LoadNext =>
        LET disk == Disk(prefix_dirs, chunk_files, head_file)
            hash == NamedHash(chain, disk)
            stored == load_all_chains(<<>>, disk).blocks
        IN  /\ loaded'.result = "Some" =>
                 /\ hash \in DOMAIN chunk_files
                 /\ chunk_files[hash].blocks # <<>>
                 /\ chain' = chunk_files[hash].blocks \o chain
                 /\ (chain = <<>> \/ (IsSuffix(chain, stored)
                                       /\ TipHash(chain) = head_file.hash)) =>
                        /\ IsSuffix(chain', stored)
                        /\ TipHash(chain') = head_file.hash
                        /\ LinkedAndHashed(chain', chain'[1].payload.parent)
            /\ (\/ chain = <<>> /\ ~head_file.exists
                \/ (chain # <<>> \/ head_file.valid) /\ is_root(hash)) =>
                 /\ loaded'.result = "None"
                 /\ chain' = chain
    ]_vars

\* The second load_next_parent_chain of a freshly opened store put a chunk
\* in front of the chunk the first one had loaded.
C33_Witness ==
    /\ loaded.call = "next"
    /\ loaded.result = "Some"
    /\ loaded.placed # <<>>
    /\ Len(chain) > Len(loaded.placed)
    /\ TipHash(chain) = head_file.hash
    /\ unpersisted_block_count = 0

\* C34: on a directory that add and persist calls which returned Ok made,
\* load_all_chains on a freshly opened store returns after no more loads of a
\* chunk than there are chunk files, with a chain whose earliest block has
\* the parent ROOT, or with no block where there is no head file.
C34_LoadsAllToRoot ==
    ~tampered =>
        LET disk == Disk(prefix_dirs, chunk_files, head_file)
            r == load_all_chains(<<>>, disk)
        IN  /\ r.result = "Ok"
            /\ head_file.exists => (r.blocks # <<>>
                                    /\ is_root(r.blocks[1].payload.parent)
                                    /\ TipHash(r.blocks) = head_file.hash)
            /\ ~head_file.exists => r.blocks = <<>>
            /\ (loaded.call = "all" /\ loaded.placed = chain) =>
                  (loaded.result = "Ok" /\ chain = r.blocks)

\* load_all_chains on a freshly opened store has loaded two chunk files.
C34_Witness ==
    /\ ~tampered
    /\ loaded.call = "all"
    /\ loaded.result = "Ok"
    /\ loaded.placed = chain
    /\ Cardinality(DOMAIN chunk_files) >= 2
    /\ Len(chain) >= 2
    /\ is_root(chain[1].payload.parent)

\* C35: State::reduce changes a member of the State on the action of that
\* member only.  TickGame(t) makes game_tick Some(t) and leaves my_garden and
\* player_position; MovePlayer(position, intent) makes player_position
\* Some(position) and leaves my_garden and game_tick; CreatePlot leaves
\* game_tick and player_position.  State::new has no garden, the game tick 0
\* and no player position.
C35_ReducersKeepToTheirSlot ==
    /\ ~reduced.called =>
          rc_state = [my_garden |-> <<>>, game_tick |-> <<0>>, player_position |-> <<>>]
    /\ reduced.called =>
          LET action == ActionOf(reduced.action)
              old == reduced.state
          IN  /\ action.kind = "TickGame" =>
                    /\ rc_state.game_tick = <<action.value>>
                    /\ rc_state.my_garden = old.my_garden
                    /\ rc_state.player_position = old.player_position
              /\ action.kind = "MovePlayer" =>
                    /\ rc_state.player_position = <<action.value>>
                    /\ rc_state.my_garden = old.my_garden
                    /\ rc_state.game_tick = old.game_tick
              /\ action.kind = "CreatePlot" =>
                    /\ rc_state.game_tick = old.game_tick
                    /\ rc_state.player_position = old.player_position

\* The first tick of the game was reduced on a State that had a garden and a
\* player position.
C35_Witness ==
    /\ reduced.called
    /\ ActionOf(reduced.action).kind = "TickGame"
    /\ reduced.state.my_garden # <<>>
    /\ reduced.state.player_position # <<>>
    /\ reduced.state.game_tick = <<0>>
    /\ rc_state.game_tick = <<1>>

\* C36: every call of a memoized selector returns what its contents make of
\* the values its input selectors returned at that call.  A call with a value
\* that is not the allocation in the cache runs the contents, and the caches
\* then hold the values and the return value of that call.
C36_ReturnsOfItsInputs ==
    LET calls == selector_calls.get_bbox
        cache == selector_cache.get_bbox
    IN  /\ \A k \in 1..Len(calls) :
              /\ ~calls[k].panicked
              /\ calls[k].result.value = get_bbox_contents(calls[k].args)
        /\ \A k \in 2..Len(calls) :
              ArgPtrs(calls[k]) # ArgPtrs(calls[k - 1]) => calls[k].ran
        /\ calls # <<>> =>
              /\ cache.args = Some(calls[Len(calls)].args)
              /\ cache.returns = Some(calls[Len(calls)].result)

\* get_bbox ran its contents for a state, the test dropped that state and
\* made another, and get_bbox ran its contents for this one: the allocator,
\* which gives the lowest address free, gave the members of the second state
\* other addresses than those of the first, which the cache keeps alive.
C36_Witness ==
    LET calls == selector_calls.get_bbox
    IN  /\ Len(calls) = 2
        /\ Len(test_states) = 1
        /\ calls[1].ran
        /\ calls[2].ran
        /\ calls[2].args = <<test_states[1].position, test_states[1].size>>
        /\ {calls[1].args[1].ptr, calls[1].args[2].ptr}
              \cap {calls[2].args[1].ptr, calls[2].args[2].ptr} = {}
        /\ calls[1].result.value # calls[2].result.value

\* C37: the caches of a selector hold the values and the return value of its
\* latest miss and nothing else.  A call with the values of an earlier call,
\* after a call with other values, runs the contents again: what it returns is
\* equal to what the earlier call returned and is another allocation.  The
\* arguments cache holds one reference to each value of the latest miss and
\* none to a value it replaced.
C37_CacheOfOne ==
    LET calls == selector_calls.get_bbox
        cache == selector_cache.get_bbox
    IN  /\ \A k \in 1..Len(calls) : \A m \in (k + 1)..Len(calls) :
              \A n \in (m + 1)..Len(calls) :
                 (calls[n].args = calls[k].args /\ ArgPtrs(calls[m]) # ArgPtrs(calls[k])) =>
                     /\ \E j \in (m + 1)..n : calls[j].ran /\ calls[j].args = calls[n].args
                     /\ calls[n].result.value = calls[k].result.value
                     /\ calls[n].result.ptr # calls[k].result.ptr
        /\ \A k \in 1..Len(calls) : \A i \in 1..2 :
              strong_count(<<>>, cache, calls[k].args[i]) =
                  IF calls[k].args[i] = calls[Len(calls)].args[i] THEN 1 ELSE 0
        /\ \A i \in 1..Len(test_states) :
              /\ strong_count(test_states, cache, test_states[i].position)
                    = Cardinality({j \in 1..Len(test_states) :
                                      test_states[j].position = test_states[i].position})
                      + (IF calls # <<>> /\ test_states[i].position = calls[Len(calls)].args[1]
                         THEN 1 ELSE 0)
              /\ strong_count(test_states, cache, test_states[i].size)
                    = Cardinality({j \in 1..Len(test_states) :
                                      test_states[j].size = test_states[i].size})
                      + (IF calls # <<>> /\ test_states[i].size = calls[Len(calls)].args[2]
                         THEN 1 ELSE 0)

\* As in test_state: get_bbox(state), get_bbox(state_3) with another position
\* and the same size, then get_bbox(state) again, both states still held.
C37_Witness ==
    LET calls == selector_calls.get_bbox
        cache == selector_cache.get_bbox
    IN  /\ Len(calls) = 3
        /\ Len(test_states) = 2
        /\ calls[3].args = calls[1].args
        /\ calls[2].args[1].ptr # calls[1].args[1].ptr
        /\ calls[2].args[2] = calls[1].args[2]
        /\ calls[3].ran
        /\ calls[3].result.ptr # calls[1].result.ptr
        /\ strong_count(test_states, cache, calls[3].args[1]) = 2
        /\ strong_count(test_states, cache, calls[2].args[1]) = 1
        /\ strong_count(test_states, cache, calls[3].args[2]) = 3

\* C38: a selector value of a copyable type, or an Option of one, is compared
\* with the cached one by value.  A call with a value equal to the cached one,
\* both Some and equal or both None, returns the cached return value and does
\* not run the contents; a call with another value runs them; no call panics.
C38_ComparedByValue ==
    \A type \in {"Copy", "OptionCopy"} :
        \A k \in 1..Len(selector_calls[type]) :
            LET call == selector_calls[type][k]
                hit == call.cached.args = Some(call.args)
            IN  /\ ~call.panicked
                /\ hit => (~call.ran /\ Some(call.result) = call.cached.returns)
                /\ ~hit => call.ran

\* C39: after try_new, chain_hashes is the set of the hashes whose chunk file
\* chains/<first two digits>/<other digits> exists; an entry under chains/
\* whose name is not that of a hash is skipped and try_new returns Ok.
C39_ScansChunkFiles ==
    refreshed # "None" =>
        /\ refreshed = "Ok"
        /\ chain_hashes = {h \in ScanHashes : ChunkEntry(h) \in chains_dir}

\* C40: in a chain with proof_of_work_size above zero, every block's hash meets
\* the proof of work add_data enforces (proof_of_work_size zero bytes, then a
\* non-zero byte); and a reconcile whose foreign blocks after the shared prefix
\* hold one that does not meet it, and are not fewer than the local ones,
\* returns MalformedBlocks and leaves the chain as it was.
C40_MeetsProofOfWork ==
    proof_of_work_size > 0 =>
        /\ \A i \in 1..Len(blocks) :
              meets_proof_of_work(blocks[i].hash, proof_of_work_size)
        /\ (/\ Called
            /\ ParentFound(before, arg)
            /\ Len(ForeignTail(before, arg)) >= Len(LocalTail(before, arg))
            /\ \E j \in 1..Len(ForeignTail(before, arg)) :
                  ~meets_proof_of_work(ForeignTail(before, arg)[j].hash, proof_of_work_size))
           => (result = "MalformedBlocks" /\ blocks = before)

\* The part of C40 that holds: no block of the chain lacks the leading zero
\* bytes, and a foreign block lacking them is refused with MalformedBlocks.
C40_LeadingZerosKept ==
    proof_of_work_size > 0 =>
        /\ LeadingZeros(blocks, proof_of_work_size)
        /\ (/\ Called
            /\ ParentFound(before, arg)
            /\ Len(ForeignTail(before, arg)) >= Len(LocalTail(before, arg))
            /\ ~LeadingZeros(ForeignTail(before, arg), proof_of_work_size))
           => (result = "MalformedBlocks" /\ blocks = before)

\* A foreign block whose hash has one zero byte more than add_data allows was
\* adopted by reconcile.
C40_TooManyZerosAdopted ==
    /\ pc = "returned"
    /\ proof_of_work_size > 0
    /\ result = "Ok"
    /\ \E i \in 1..Len(blocks) :
          /\ HonestHash(blocks[i])
          /\ ~meets_proof_of_work(blocks[i].hash, proof_of_work_size)

====
